---- MODULE Spec2Model ----
(***************************************************************************)
(* Teapot: the wizard controller (internal/ui/app.go), the navigation      *)
(* engine (package navigation) and the screen view-models they construct.  *)
(*                                                                         *)
(* A Go pointer or an optional value is a sequence of length at most one:  *)
(* <<>> is nil, <<v>> points to v.  A map[K]V is a function on its key     *)
(* space whose absent keys hold <<>>.                                      *)
(***************************************************************************)
EXTENDS Integers, Sequences, FiniteSets, TLC

VARIABLES
    state,          \* Model.state: models.AppState
    screenModels,   \* Model.screenModels: map[models.Screen]tea.Model
    windowWidth,    \* Model.windowWidth
    windowHeight,   \* Model.windowHeight
    cmd,            \* the tea.Cmd returned by the latest Update, <<>> for nil
    running,        \* the bubbletea program loop has not yet processed tea.Quit
    scenario,       \* how far the messages delivered so far follow FlowEvents
    panicked,       \* whether Model.View has panicked
    structureCache, \* the StructureCache behind RenderProjectStructure
    clock,          \* what time.Now() returns
    lastCall,       \* the latest call on structureCache and what it returned
    callers,        \* the GetStructure calls in progress, by goroutine
    errorRecovery,  \* the ErrorRecovery under use, <<>> while none is constructed
    handled,        \* the errors passed to HandleError since the log was last empty
    generating,     \* a GeneratingModel that is sent its messages directly
    generatingCmd   \* the tea.Cmd its latest Update returned, <<>> for nil

wizardVars ==
    <<state, screenModels, windowWidth, windowHeight, cmd, running, scenario, panicked>>

cacheVars == <<structureCache, clock, lastCall, callers>>

logVars == <<errorRecovery, handled>>

generatingVars == <<generating, generatingCmd>>

vars == <<state, screenModels, windowWidth, windowHeight, cmd, running, scenario, panicked,
          structureCache, clock, lastCall, callers, errorRecovery, handled,
          generating, generatingCmd>>

----------------------------------------------------------------------------
(* Bounds of the model and the small input sets the events draw from.      *)

\* The number of applications the model lets the user commit.
MaxApps == 2

\* The application kinds the model's kind-selection screen lists: the first
\* two of the six that NewAddAppsModel lists.
AddAppsList == <<"react", "next">>

ProjectNames == {"demo"}
Descriptions == {"a demo"}
AppNames == {"web"}
OptionSets == {{<<"typescript", "true">>}}
LintingTools == {"biome"}
InfraOptionSets == {{"docker", "docker-compose"}}
CIProviders == {"github"}
CIFeatureLists == {<<"testing">>}
Editors == {"cursor"}
ExtensionLists == {<<"prettier">>}
WindowSizes == {<<80, 24>>}

----------------------------------------------------------------------------
(* models: screens, application kinds, architectures, records.             *)

WelcomeScreen == "Welcome"
ProjectSetupScreen == "ProjectSetup"
ArchitectureScreen == "Architecture"
AddAppsScreen == "AddApps"
AppConfigScreen == "AppConfig"
AddAnotherAppScreen == "AddAnotherApp"
DevToolsScreen == "DevTools"
InfrastructureScreen == "Infrastructure"
CIPipelineScreen == "CIPipeline"
AIToolsScreen == "AITools"
YAMLPreviewScreen == "YAMLPreview"
GeneratingScreen == "Generating"
CompleteScreen == "Complete"

Screens ==
    { WelcomeScreen, ProjectSetupScreen, ArchitectureScreen, AddAppsScreen,
      AppConfigScreen, AddAnotherAppScreen, DevToolsScreen,
      InfrastructureScreen, CIPipelineScreen, AIToolsScreen, YAMLPreviewScreen,
      GeneratingScreen, CompleteScreen }

\* The application kinds an AppTypeSelectedMsg carries in the model.
AppTypes == { AddAppsList[i] : i \in 1..Len(AddAppsList) }

ArchitectureTurborepo == "turborepo"
ArchitectureSingle == "single"
ArchitectureNx == "nx"

\* The architectures an ArchitectureSelectedMsg carries in the model.
Architectures == { ArchitectureTurborepo, ArchitectureSingle }

\* The zero value of models.ProjectConfig.
EmptyProject ==
    [ Name |-> "",
      Description |-> "",
      Architecture |-> "",
      Applications |-> <<>>,
      DevTools |-> [ Linting |-> "", TypeScript |-> FALSE, Husky |-> FALSE,
                     LintStaged |-> FALSE ],
      Infrastructure |-> [ Docker |-> FALSE, DockerCompose |-> FALSE,
                           Pulumi |-> FALSE, Terraform |-> FALSE,
                           CloudProvider |-> "" ],
      CIPipeline |-> [ Provider |-> "", Features |-> <<>>, FeaturesNil |-> TRUE ],
      AITools |-> [ Editor |-> "", Extensions |-> <<>> ] ]

----------------------------------------------------------------------------
(* Messages.  A tea.Cmd is the message it produces when the runtime runs   *)
(* it; tea.Quit produces QuitMsg, which ends the program loop.             *)

KeyMsg(k) == [ type |-> "Key", key |-> k ]
WindowSizeMsg(w, h) == [ type |-> "WindowSize", Width |-> w, Height |-> h ]
WelcomeCompleteMsg == [ type |-> "WelcomeComplete" ]
ProjectSetupCompleteMsg(n, d) ==
    [ type |-> "ProjectSetupComplete", ProjectName |-> n, Description |-> d ]
ArchitectureSelectedMsg(a) == [ type |-> "ArchitectureSelected", Architecture |-> a ]
AppTypeSelectedMsg(t) == [ type |-> "AppTypeSelected", AppType |-> t ]
AppConfigCompleteMsg(n, o) ==
    [ type |-> "AppConfigComplete", AppName |-> n, Options |-> o ]
AddAnotherAppSelectedMsg(a) == [ type |-> "AddAnotherAppSelected", Action |-> a ]
DevToolsSelectedMsg(l) == [ type |-> "DevToolsSelected", LintingTool |-> l ]
InfrastructureSelectedMsg(o) == [ type |-> "InfrastructureSelected", Options |-> o ]
CIPipelineSelectedMsg(p, f) ==
    [ type |-> "CIPipelineSelected", Provider |-> p, Features |-> f ]
AIToolsSelectedMsg(e, x) ==
    [ type |-> "AIToolsSelected", Editor |-> e, Extensions |-> x ]
GenerationCompleteMsg == [ type |-> "GenerationComplete" ]
ProgressMsg == [ type |-> "Progress" ]
QuitMsg == [ type |-> "Quit" ]

\* The keys the model presses.
Keys == { "ctrl+c", "esc", "backspace", "enter", "down", "up" }

\* The actions an AddAnotherAppSelectedMsg carries.
AddAnotherActions == { "add", "continue" }

\* Every completion signal a screen can emit, with payloads from the input sets.
CompletionMsgs ==
    { WelcomeCompleteMsg, GenerationCompleteMsg }
    \cup { ProjectSetupCompleteMsg(n, d) : n \in ProjectNames, d \in Descriptions }
    \cup { ArchitectureSelectedMsg(a) : a \in Architectures }
    \cup { AppTypeSelectedMsg(t) : t \in AppTypes }
    \cup { AppConfigCompleteMsg(n, o) : n \in AppNames, o \in OptionSets }
    \cup { AddAnotherAppSelectedMsg(a) : a \in AddAnotherActions }
    \cup { DevToolsSelectedMsg(l) : l \in LintingTools }
    \cup { InfrastructureSelectedMsg(o) : o \in InfraOptionSets }
    \cup { CIPipelineSelectedMsg(p, f) : p \in CIProviders, f \in CIFeatureLists }
    \cup { AIToolsSelectedMsg(e, x) : e \in Editors, x \in ExtensionLists }

----------------------------------------------------------------------------
(* screens: the view-models.  The list screens the controller's rules are  *)
(* about (kind selection, add-another) and the generating screen keep      *)
(* their fields.  An input widget (text fields, checkbox lists) is kept as *)
(* its constructor arguments; what it emits on "enter" is an input of the  *)
(* event, drawn from WidgetEmits.                                          *)

NewWelcomeModel == [ screen |-> WelcomeScreen, ready |-> FALSE ]
NewProjectSetupModel == [ screen |-> ProjectSetupScreen ]
NewArchitectureModel == [ screen |-> ArchitectureScreen ]
NewAddAppsModel == [ screen |-> AddAppsScreen, cursor |-> 0 ]
NewAppConfigModel(appType) == [ screen |-> AppConfigScreen, appType |-> appType ]

NewAddAnotherAppModel(appCount, architecture) ==
    [ screen |-> AddAnotherAppScreen,
      options |-> IF architecture = ArchitectureSingle
                  THEN <<"continue">>
                  ELSE <<"add", "continue">>,
      cursor |-> 0,
      appCount |-> appCount,
      architectureType |-> architecture ]

NewDevToolsModel == [ screen |-> DevToolsScreen ]
NewInfrastructureModel == [ screen |-> InfrastructureScreen ]
NewCIPipelineModel == [ screen |-> CIPipelineScreen ]
NewAIToolsModel == [ screen |-> AIToolsScreen ]
\* The descriptions of the steps NewGeneratingModel lists.
GenerationSteps ==
    << "Creating project structure", "Setting up workspace", "Generating applications",
       "Setting up shared packages", "Running package manager",
       "Configuring development tools", "Setting up automation" >>

NewGeneratingModel ==
    [ screen      |-> GeneratingScreen,
      progress    |-> 0,
      currentStep |-> "Creating project structure...",
      completed   |-> [ i \in 1..Len(GenerationSteps) |-> FALSE ],
      done        |-> FALSE ]
NewCompleteModel(projectName) == [ screen |-> CompleteScreen, projectName |-> projectName ]

\* What an input widget can emit when "enter" is pressed: <<>> when the widget
\* keeps the focus (an empty name, a toggled option), or its completion signal.
WidgetEmits(screen) ==
    {<<>>} \cup
    CASE screen = ProjectSetupScreen ->
            { <<ProjectSetupCompleteMsg(n, d)>> : n \in ProjectNames, d \in Descriptions }
      [] screen = ArchitectureScreen ->
            { <<ArchitectureSelectedMsg(a)>> : a \in Architectures }
      [] screen = AppConfigScreen ->
            { <<AppConfigCompleteMsg(n, o)>> : n \in AppNames, o \in OptionSets }
      [] screen = DevToolsScreen ->
            { <<DevToolsSelectedMsg(l)>> : l \in LintingTools }
      [] screen = InfrastructureScreen ->
            { <<InfrastructureSelectedMsg(o)>> : o \in InfraOptionSets }
      [] screen = CIPipelineScreen ->
            { <<CIPipelineSelectedMsg(p, f)>> : p \in CIProviders, f \in CIFeatureLists }
      [] screen = AIToolsScreen ->
            { <<AIToolsSelectedMsg(e, x)>> : e \in Editors, x \in ExtensionLists }
      [] OTHER -> {}

Result(model, c) == [ model |-> model, cmd |-> c ]

WelcomeUpdate(m, msg) ==
    IF msg.type = "Key" /\ msg.key = "enter"
    THEN Result(m, <<WelcomeCompleteMsg>>)
    ELSE Result(m, <<>>)

AddAppsUpdate(m, msg) ==
    IF msg.type # "Key" THEN Result(m, <<>>)
    ELSE CASE msg.key = "down" ->
                Result(IF m.cursor < Len(AddAppsList) - 1
                       THEN [m EXCEPT !.cursor = @ + 1] ELSE m, <<>>)
           [] msg.key = "up" ->
                Result(IF m.cursor > 0 THEN [m EXCEPT !.cursor = @ - 1] ELSE m, <<>>)
           [] msg.key = "enter" ->
                Result(m, <<AppTypeSelectedMsg(AddAppsList[m.cursor + 1])>>)
           [] OTHER -> Result(m, <<>>)

AddAnotherAppUpdate(m, msg) ==
    IF msg.type # "Key" THEN Result(m, <<>>)
    ELSE CASE msg.key = "down" ->
                Result(IF m.cursor < Len(m.options) - 1
                       THEN [m EXCEPT !.cursor = @ + 1] ELSE m, <<>>)
           [] msg.key = "up" ->
                Result(IF m.cursor > 0 THEN [m EXCEPT !.cursor = @ - 1] ELSE m, <<>>)
           [] msg.key = "enter" ->
                IF m.options[m.cursor + 1] = "continue"
                THEN Result(m, <<AddAnotherAppSelectedMsg("continue")>>)
                ELSE Result(m, <<AddAnotherAppSelectedMsg("add")>>)
           [] OTHER -> Result(m, <<>>)

\* case ProgressMsg of GeneratingModel.Update while progress < 100: the
\* progress raised by step, the step shown and the step marked completed.
\* completed[stepIndex-1] of the code is completed[stepIndex] here.
Advance(m, step) ==
    LET p == m.progress + step
        stepIndex == (p * Len(GenerationSteps)) \div 100
    IN  IF stepIndex < Len(GenerationSteps)
        THEN [m EXCEPT !.progress = p,
                       !.currentStep = GenerationSteps[stepIndex + 1],
                       !.completed = IF stepIndex > 0
                                     THEN [@ EXCEPT ![stepIndex] = TRUE]
                                     ELSE @]
        ELSE [m EXCEPT !.progress = p]

\* GeneratingModel.Update that raises the progress by 3 a tick.
GeneratingUpdateByThree(m, msg) ==
    CASE msg.type = "Key" /\ msg.key = "esc" -> Result(m, <<QuitMsg>>)
      [] msg.type = "Key" /\ msg.key = "enter" /\ m.done ->
            Result(m, <<GenerationCompleteMsg>>)
      [] msg.type = "Progress" /\ ~m.done ->
            LET m1 == IF m.progress < 100 THEN Advance(m, 3) ELSE m
            IN  IF m1.progress >= 100
                THEN Result([m1 EXCEPT !.done = TRUE,
                                       !.completed[Len(m1.completed)] = TRUE,
                                       !.currentStep = "Project generation complete!"],
                            <<GenerationCompleteMsg>>)
                ELSE Result(m1, <<ProgressMsg>>)
      [] OTHER -> Result(m, <<>>)

\* GeneratingModel.Update; the tick it schedules is the ProgressMsg the tick
\* delivers.
GeneratingUpdate(m, msg) ==
    CASE msg.type = "Key" /\ msg.key = "esc" -> Result(m, <<QuitMsg>>)
      [] msg.type = "Key" /\ msg.key = "enter" /\ m.done ->
            Result(m, <<GenerationCompleteMsg>>)
      [] msg.type = "Progress" /\ ~m.done ->
            LET m1 == IF m.progress < 100 THEN Advance(m, 2) ELSE m
            IN  IF m1.progress >= 100
                THEN Result([m1 EXCEPT !.done = TRUE,
                                       !.completed[Len(m1.completed)] = TRUE,
                                       !.currentStep = "Project generation complete!"],
                            <<GenerationCompleteMsg>>)
                ELSE Result(m1, <<ProgressMsg>>)
      [] OTHER -> Result(m, <<>>)

CompleteUpdate(m, msg) ==
    IF msg.type = "Key" /\ msg.key \in {"enter", "esc"}
    THEN Result(m, <<QuitMsg>>)
    ELSE Result(m, <<>>)

\* An input widget: "enter" emits what the widget has collected.
WidgetUpdate(m, msg, emit) ==
    IF msg.type = "Key" /\ msg.key = "enter" /\ emit \in WidgetEmits(m.screen)
    THEN Result(m, emit)
    ELSE Result(m, <<>>)

\* tea.Model.Update of the view-model m.
ScreenUpdate(m, msg, emit) ==
    CASE m.screen = WelcomeScreen -> WelcomeUpdate(m, msg)
      [] m.screen = AddAppsScreen -> AddAppsUpdate(m, msg)
      [] m.screen = AddAnotherAppScreen -> AddAnotherAppUpdate(m, msg)
      [] m.screen = GeneratingScreen -> GeneratingUpdate(m, msg)
      [] m.screen = CompleteScreen -> CompleteUpdate(m, msg)
      [] OTHER -> WidgetUpdate(m, msg, emit)

----------------------------------------------------------------------------
(* ui: the wizard controller.  A Model value is the record of its fields.  *)

NewModel ==
    [ state |-> [ CurrentScreen |-> WelcomeScreen,
                  Project |-> EmptyProject,
                  CurrentApp |-> <<>>,
                  CurrentAppIndex |-> 0,
                  Quitting |-> FALSE ],
      screenModels |-> [ s \in Screens |->
                            IF s = WelcomeScreen THEN <<NewWelcomeModel>> ELSE <<>> ],
      windowWidth |-> 0,
      windowHeight |-> 0 ]

\* m.screenModels[s] = v when no view-model is stored for s, else m unchanged.
\* Ensure that replaces the view-model that exists.
EnsureFresh(m, s, v) == [m EXCEPT !.screenModels[s] = <<v>>]

\* Ensure that never stores a view-model.
EnsureNothing(m, s, v) == m

Ensure(m, s, v) ==
    IF m.screenModels[s] = <<>> THEN [m EXCEPT !.screenModels[s] = <<v>>] ELSE m

Apps(m) == m.state.Project.Applications

\* UncommitLastApp taking the oldest application instead of the latest.
UncommitFirstApp(m) ==
    LET n == Len(Apps(m))
        firstApp == Apps(m)[1]
    IN  [m EXCEPT !.state.Project.Applications = SubSeq(@, 2, n),
                  !.state.CurrentApp = <<firstApp>>,
                  !.state.CurrentScreen = AppConfigScreen,
                  !.screenModels[AppConfigScreen] = <<NewAppConfigModel(firstApp.Type)>>]

\* UncommitLastApp that reopens the last application but leaves it in the list.
UncommitKeepingApp(m) ==
    LET n == Len(Apps(m))
        lastApp == Apps(m)[n]
    IN  [m EXCEPT !.state.CurrentApp = <<lastApp>>,
                  !.state.CurrentScreen = AppConfigScreen,
                  !.screenModels[AppConfigScreen] = <<NewAppConfigModel(lastApp.Type)>>]

\* case models.AddAnotherAppScreen of handleBackNavigation, with applications
\* committed: the last one goes back to its configuration.
UncommitLastApp(m) ==
    LET n == Len(Apps(m))
        lastApp == Apps(m)[n]
    IN  [m EXCEPT !.state.Project.Applications = SubSeq(@, 1, n - 1),
                  !.state.CurrentApp = <<lastApp>>,
                  !.state.CurrentScreen = AppConfigScreen,
                  !.screenModels[AppConfigScreen] = <<NewAppConfigModel(lastApp.Type)>>]

handleBackNavigation(m) ==
    LET cur == m.state.CurrentScreen
        n == Len(Apps(m))
        addAnother == NewAddAnotherAppModel(n, m.state.Project.Architecture)
    IN
    CASE cur = ProjectSetupScreen -> [m EXCEPT !.state.CurrentScreen = WelcomeScreen]
      [] cur = ArchitectureScreen -> [m EXCEPT !.state.CurrentScreen = ProjectSetupScreen]
      [] cur = AddAppsScreen ->
            IF n > 0
            THEN Ensure([m EXCEPT !.state.CurrentScreen = AddAnotherAppScreen],
                        AddAnotherAppScreen, addAnother)
            ELSE [m EXCEPT !.state.CurrentScreen = ArchitectureScreen]
      [] cur = AppConfigScreen ->
            [m EXCEPT !.state.CurrentScreen = AddAppsScreen,
                      !.state.CurrentApp = <<>>]
      [] cur = AddAnotherAppScreen ->
            IF n > 0
            THEN UncommitLastApp(m)
            ELSE [m EXCEPT !.state.CurrentScreen = AddAppsScreen]
      [] cur = DevToolsScreen ->
            Ensure([m EXCEPT !.state.CurrentScreen = AddAnotherAppScreen],
                   AddAnotherAppScreen, addAnother)
      [] cur = InfrastructureScreen -> [m EXCEPT !.state.CurrentScreen = DevToolsScreen]
      [] cur = CIPipelineScreen -> [m EXCEPT !.state.CurrentScreen = InfrastructureScreen]
      [] cur = AIToolsScreen -> [m EXCEPT !.state.CurrentScreen = CIPipelineScreen]
      [] OTHER -> m

\* UpdateKey whose "esc" quits on every screen.
UpdateKeyEscQuitsEverywhere(m, msg, emit) ==
    LET cur == m.state.CurrentScreen IN
    IF msg.key = "ctrl+c" \/ msg.key = "esc"
    THEN Result([m EXCEPT !.state.Quitting = TRUE], <<QuitMsg>>)
    ELSE IF msg.key = "backspace"
    THEN Result(handleBackNavigation(m), <<>>)
    ELSE IF m.screenModels[cur] # <<>>
    THEN LET r == ScreenUpdate(m.screenModels[cur][1], msg, emit)
         IN  Result([m EXCEPT !.screenModels[cur] = <<r.model>>], r.cmd)
    ELSE Result(m, <<>>)

\* case tea.KeyMsg of Update.
UpdateKey(m, msg, emit) ==
    LET cur == m.state.CurrentScreen IN
    IF msg.key = "ctrl+c"
    THEN Result([m EXCEPT !.state.Quitting = TRUE], <<QuitMsg>>)
    ELSE IF msg.key = "esc" /\ cur # GeneratingScreen /\ cur # CompleteScreen
    THEN Result([m EXCEPT !.state.Quitting = TRUE], <<QuitMsg>>)
    ELSE IF msg.key = "backspace"
    THEN Result(handleBackNavigation(m), <<>>)
    ELSE IF m.screenModels[cur] # <<>>
    THEN LET r == ScreenUpdate(m.screenModels[cur][1], msg, emit)
         IN  Result([m EXCEPT !.screenModels[cur] = <<r.model>>], r.cmd)
    ELSE Result(m, <<>>)

\* UpdateAppTypeSelected that already puts the new application in the list.
SelectAndCommit(m, msg) ==
    IF m.state.CurrentScreen = AddAppsScreen
    THEN LET newApp == [ ID |-> <<"app-", msg.AppType>>,
                         Name |-> msg.AppType,
                         Type |-> msg.AppType,
                         Description |-> "",
                         Options |-> {} ]
         IN  [m EXCEPT !.state.Project.Applications = Append(@, newApp),
                       !.state.CurrentApp = <<newApp>>,
                       !.state.CurrentScreen = AppConfigScreen,
                       !.screenModels[AppConfigScreen] =
                            <<NewAppConfigModel(msg.AppType)>>]
    ELSE m

\* case screens.AppTypeSelectedMsg of Update.
UpdateAppTypeSelected(m, msg) ==
    IF m.state.CurrentScreen = AddAppsScreen
    THEN LET newApp == [ ID |-> <<"app-", msg.AppType>>,
                         Name |-> msg.AppType,
                         Type |-> msg.AppType,
                         Description |-> "",
                         Options |-> {} ]
         IN  [m EXCEPT !.state.CurrentApp = <<newApp>>,
                       !.state.CurrentScreen = AppConfigScreen,
                       !.screenModels[AppConfigScreen] =
                            <<NewAppConfigModel(msg.AppType)>>]
    ELSE m

\* UpdateAppConfigComplete that leaves the committed application in progress.
CommitKeepingCurrentApp(m, msg) ==
    IF m.state.CurrentScreen = AppConfigScreen /\ m.state.CurrentApp # <<>>
    THEN LET app == [m.state.CurrentApp[1] EXCEPT !.Name = msg.AppName,
                                                  !.Options = msg.Options]
             m1 == [m EXCEPT !.state.Project.Applications = Append(@, app),
                             !.state.CurrentApp = <<app>>,
                             !.state.CurrentScreen = AddAnotherAppScreen]
         IN  Ensure(m1, AddAnotherAppScreen,
                    NewAddAnotherAppModel(Len(Apps(m1)), m1.state.Project.Architecture))
    ELSE m

\* UpdateAppConfigComplete that puts the committed application first.
CommitPrepends(m, msg) ==
    IF m.state.CurrentScreen = AppConfigScreen /\ m.state.CurrentApp # <<>>
    THEN LET app == [m.state.CurrentApp[1] EXCEPT !.Name = msg.AppName,
                                                  !.Options = msg.Options]
             m1 == [m EXCEPT !.state.Project.Applications = <<app>> \o @,
                             !.state.CurrentApp = <<>>,
                             !.state.CurrentScreen = AddAnotherAppScreen]
         IN  Ensure(m1, AddAnotherAppScreen,
                    NewAddAnotherAppModel(Len(Apps(m1)), m1.state.Project.Architecture))
    ELSE m

\* case screens.AppConfigCompleteMsg of Update.
UpdateAppConfigComplete(m, msg) ==
    IF m.state.CurrentScreen = AppConfigScreen /\ m.state.CurrentApp # <<>>
    THEN LET app == [m.state.CurrentApp[1] EXCEPT !.Name = msg.AppName,
                                                  !.Options = msg.Options]
             m1 == [m EXCEPT !.state.Project.Applications = Append(@, app),
                             !.state.CurrentApp = <<>>,
                             !.state.CurrentScreen = AddAnotherAppScreen]
         IN  Ensure(m1, AddAnotherAppScreen,
                    NewAddAnotherAppModel(Len(Apps(m1)), m1.state.Project.Architecture))
    ELSE m

\* UpdateAddAnotherAppSelected without the check of the active screen.
AddAnotherAppSelectedOnAnyScreen(m, msg) ==
    IF msg.Action = "add"
    THEN [m EXCEPT !.state.CurrentScreen = AddAppsScreen,
                   !.screenModels[AddAppsScreen] = <<NewAddAppsModel>>]
    ELSE Ensure([m EXCEPT !.state.CurrentScreen = DevToolsScreen],
                DevToolsScreen, NewDevToolsModel)

\* UpdateAddAnotherAppSelected that takes every action for "add".
AddAnotherAppSelectedAlwaysAdds(m, msg) ==
    IF m.state.CurrentScreen = AddAnotherAppScreen
    THEN [m EXCEPT !.state.CurrentScreen = AddAppsScreen,
                   !.screenModels[AddAppsScreen] = <<NewAddAppsModel>>]
    ELSE m

\* case screens.AddAnotherAppSelectedMsg of Update.
UpdateAddAnotherAppSelected(m, msg) ==
    IF m.state.CurrentScreen = AddAnotherAppScreen
    THEN IF msg.Action = "add"
         THEN [m EXCEPT !.state.CurrentScreen = AddAppsScreen,
                        !.screenModels[AddAppsScreen] = <<NewAddAppsModel>>]
         ELSE Ensure([m EXCEPT !.state.CurrentScreen = DevToolsScreen],
                     DevToolsScreen, NewDevToolsModel)
    ELSE m

\* The cases of Update that copy a payload and move to the next screen.
UpdateForward(m, msg) ==
    LET cur == m.state.CurrentScreen IN
    CASE msg.type = "WelcomeComplete" /\ cur = WelcomeScreen ->
            Ensure([m EXCEPT !.state.CurrentScreen = ProjectSetupScreen],
                   ProjectSetupScreen, NewProjectSetupModel)
      [] msg.type = "ProjectSetupComplete" /\ cur = ProjectSetupScreen ->
            Ensure([m EXCEPT !.state.Project.Name = msg.ProjectName,
                             !.state.Project.Description = msg.Description,
                             !.state.CurrentScreen = ArchitectureScreen],
                   ArchitectureScreen, NewArchitectureModel)
      [] msg.type = "ArchitectureSelected" /\ cur = ArchitectureScreen ->
            Ensure([m EXCEPT !.state.Project.Architecture = msg.Architecture,
                             !.state.CurrentScreen = AddAppsScreen],
                   AddAppsScreen, NewAddAppsModel)
      [] msg.type = "DevToolsSelected" /\ cur = DevToolsScreen ->
            Ensure([m EXCEPT !.state.Project.DevTools =
                                [ Linting |-> msg.LintingTool, TypeScript |-> TRUE,
                                  Husky |-> TRUE, LintStaged |-> TRUE ],
                             !.state.CurrentScreen = InfrastructureScreen],
                   InfrastructureScreen, NewInfrastructureModel)
      [] msg.type = "InfrastructureSelected" /\ cur = InfrastructureScreen ->
            Ensure([m EXCEPT !.state.Project.Infrastructure.Docker =
                                ("docker" \in msg.Options),
                             !.state.Project.Infrastructure.DockerCompose =
                                ("docker-compose" \in msg.Options),
                             !.state.Project.Infrastructure.Pulumi =
                                ("pulumi" \in msg.Options),
                             !.state.Project.Infrastructure.Terraform =
                                ("terraform" \in msg.Options),
                             !.state.CurrentScreen = CIPipelineScreen],
                   CIPipelineScreen, NewCIPipelineModel)
      [] msg.type = "CIPipelineSelected" /\ cur = CIPipelineScreen ->
            Ensure([m EXCEPT !.state.Project.CIPipeline.Provider = msg.Provider,
                             !.state.Project.CIPipeline.Features = msg.Features,
                             !.state.Project.CIPipeline.FeaturesNil = FALSE,
                             !.state.CurrentScreen = AIToolsScreen],
                   AIToolsScreen, NewAIToolsModel)
      [] msg.type = "AIToolsSelected" /\ cur = AIToolsScreen ->
            Ensure([m EXCEPT !.state.Project.AITools.Editor = msg.Editor,
                             !.state.Project.AITools.Extensions = msg.Extensions,
                             !.state.CurrentScreen = GeneratingScreen],
                   GeneratingScreen, NewGeneratingModel)
      [] msg.type = "GenerationComplete" /\ cur = GeneratingScreen ->
            Ensure([m EXCEPT !.state.CurrentScreen = CompleteScreen],
                   CompleteScreen, NewCompleteModel(m.state.Project.Name))
      [] OTHER -> m

\* Model.Update: the new Model and the command it returns.  emit is what the
\* active input widget emits should msg be an "enter" forwarded to it.
\* Update whose resize handler starts the wizard over.
UpdateResizeRestarts(m, msg, emit) ==
    CASE msg.type = "WindowSize" ->
            Result([m EXCEPT !.windowWidth = msg.Width, !.windowHeight = msg.Height,
                             !.state.CurrentScreen = WelcomeScreen], <<>>)
      [] msg.type = "Key" -> UpdateKey(m, msg, emit)
      [] msg.type = "AppTypeSelected" -> Result(UpdateAppTypeSelected(m, msg), <<>>)
      [] msg.type = "AppConfigComplete" -> Result(UpdateAppConfigComplete(m, msg), <<>>)
      [] msg.type = "AddAnotherAppSelected" ->
            Result(UpdateAddAnotherAppSelected(m, msg), <<>>)
      [] OTHER -> Result(UpdateForward(m, msg), <<>>)

Update(m, msg, emit) ==
    CASE msg.type = "WindowSize" ->
            Result([m EXCEPT !.windowWidth = msg.Width, !.windowHeight = msg.Height], <<>>)
      [] msg.type = "Key" -> UpdateKey(m, msg, emit)
      [] msg.type = "AppTypeSelected" -> Result(UpdateAppTypeSelected(m, msg), <<>>)
      [] msg.type = "AppConfigComplete" -> Result(UpdateAppConfigComplete(m, msg), <<>>)
      [] msg.type = "AddAnotherAppSelected" ->
            Result(UpdateAddAnotherAppSelected(m, msg), <<>>)
      [] OTHER -> Result(UpdateForward(m, msg), <<>>)

\* renderLeftPanel: whether the panel holds the view of the active screen,
\* between the title and the progress indicator.
renderLeftPanel(m) == m.screenModels[m.state.CurrentScreen] # <<>>

\* Model.View: what is rendered.
View(m) ==
    IF m.state.Quitting THEN ""
    ELSE IF m.windowWidth = 0 \/ m.windowHeight = 0 THEN "loading"
    ELSE "panels"

----------------------------------------------------------------------------
(* navigation: the navigation engine, NavigationFlow.                      *)

\* nf.transitions, as NewNavigationFlow fills it; <<>> for a screen without entry.
transitions(s) ==
    CASE s = ProjectSetupScreen -> <<WelcomeScreen>>
      [] s = ArchitectureScreen -> <<ProjectSetupScreen>>
      [] s = AppConfigScreen -> <<AddAppsScreen>>
      [] s = DevToolsScreen -> <<AddAnotherAppScreen>>
      [] s = InfrastructureScreen -> <<DevToolsScreen>>
      [] s = CIPipelineScreen -> <<InfrastructureScreen>>
      [] s = AIToolsScreen -> <<CIPipelineScreen>>
      [] OTHER -> <<>>

\* conditionalTransitions whose kind-selection entry ignores the list.
conditionalTransitionsIgnoringApps(s, st) ==
    CASE s = AddAppsScreen -> <<ArchitectureScreen>>
      [] s = AddAnotherAppScreen -> <<AppConfigScreen>>
      [] OTHER -> <<>>

\* nf.conditionalTransitions, applied to st; <<>> for a screen without entry.
conditionalTransitions(s, st) ==
    CASE s = AddAppsScreen ->
            IF Len(st.Project.Applications) > 0
            THEN <<AddAnotherAppScreen>>
            ELSE <<ArchitectureScreen>>
      [] s = AddAnotherAppScreen -> <<AppConfigScreen>>
      [] OTHER -> <<>>

GetPreviousScreen(current, st) ==
    IF conditionalTransitions(current, st) # <<>>
    THEN conditionalTransitions(current, st)[1]
    ELSE IF transitions(current) # <<>>
    THEN transitions(current)[1]
    ELSE current

\* CanNavigateBack that lets the user leave the complete screen.
CanNavigateBackFromComplete(current) ==
    current \notin { WelcomeScreen, GeneratingScreen }

CanNavigateBack(current) ==
    current \notin { WelcomeScreen, GeneratingScreen, CompleteScreen }

\* NavigateBack that clears the application in progress on every screen.
NavigateBackClearingApp(current, st) ==
    LET n == Len(st.Project.Applications)
        st0 == [st EXCEPT !.CurrentApp = <<>>]
    IN
    IF ~CanNavigateBack(current)
    THEN [ state |-> st0, screen |-> current, model |-> <<>> ]
    ELSE IF current = AddAnotherAppScreen
    THEN IF n > 0
         THEN LET lastApp == st.Project.Applications[n]
              IN  [ state |-> [st EXCEPT !.Project.Applications = SubSeq(@, 1, n - 1),
                                         !.CurrentApp = <<lastApp>>],
                    screen |-> AppConfigScreen,
                    model |-> <<NewAppConfigModel(lastApp.Type)>> ]
         ELSE [ state |-> st0, screen |-> AddAppsScreen, model |-> <<>> ]
    ELSE [ state |-> st0,
           screen |-> GetPreviousScreen(current, st0),
           model |-> <<>> ]

\* NavigateBack that keeps the application in progress when it leaves the
\* configuration screen.
NavigateBackKeepingApp(current, st) ==
    LET n == Len(st.Project.Applications) IN
    IF ~CanNavigateBack(current)
    THEN [ state |-> st, screen |-> current, model |-> <<>> ]
    ELSE IF current = AddAnotherAppScreen
    THEN IF n > 0
         THEN LET lastApp == st.Project.Applications[n]
              IN  [ state |-> [st EXCEPT !.Project.Applications = SubSeq(@, 1, n - 1),
                                         !.CurrentApp = <<lastApp>>],
                    screen |-> AppConfigScreen,
                    model |-> <<NewAppConfigModel(lastApp.Type)>> ]
         ELSE [ state |-> st, screen |-> AddAppsScreen, model |-> <<>> ]
    ELSE [ state |-> st,
           screen |-> GetPreviousScreen(current, st),
           model |-> <<>> ]

\* NavigateBack that stores the destination in the state as well.
NavigateBackMovingScreen(current, st) ==
    LET n == Len(st.Project.Applications) IN
    IF ~CanNavigateBack(current)
    THEN [ state |-> st, screen |-> current, model |-> <<>> ]
    ELSE IF current = AddAnotherAppScreen
    THEN IF n > 0
         THEN LET lastApp == st.Project.Applications[n]
              IN  [ state |-> [st EXCEPT !.Project.Applications = SubSeq(@, 1, n - 1),
                                         !.CurrentApp = <<lastApp>>],
                    screen |-> AppConfigScreen,
                    model |-> <<NewAppConfigModel(lastApp.Type)>> ]
         ELSE [ state |-> st, screen |-> AddAppsScreen, model |-> <<>> ]
    ELSE LET st1 == IF current = AppConfigScreen
                    THEN [st EXCEPT !.CurrentApp = <<>>]
                    ELSE st
         IN  [ state |-> [st1 EXCEPT !.CurrentScreen = GetPreviousScreen(current, st1)],
               screen |-> GetPreviousScreen(current, st1),
               model |-> <<>> ]

\* NavigateBack: the state, the screen and the view-model it returns.
NavigateBack(current, st) ==
    LET n == Len(st.Project.Applications) IN
    IF ~CanNavigateBack(current)
    THEN [ state |-> st, screen |-> current, model |-> <<>> ]
    ELSE IF current = AddAnotherAppScreen
    THEN IF n > 0
         THEN LET lastApp == st.Project.Applications[n]
              IN  [ state |-> [st EXCEPT !.Project.Applications = SubSeq(@, 1, n - 1),
                                         !.CurrentApp = <<lastApp>>],
                    screen |-> AppConfigScreen,
                    model |-> <<NewAppConfigModel(lastApp.Type)>> ]
         ELSE [ state |-> st, screen |-> AddAppsScreen, model |-> <<>> ]
    ELSE LET st1 == IF current = AppConfigScreen
                    THEN [st EXCEPT !.CurrentApp = <<>>]
                    ELSE st
         IN  [ state |-> st1,
               screen |-> GetPreviousScreen(current, st1),
               model |-> <<>> ]

\* GetNextScreen whose AI-tools entry answers to every name.
GetNextScreenAnyNameOnAITools(current, msgType) ==
    CASE current = WelcomeScreen /\ msgType = "WelcomeComplete" -> ProjectSetupScreen
      [] current = ProjectSetupScreen /\ msgType = "ProjectSetupComplete" ->
            ArchitectureScreen
      [] current = ArchitectureScreen /\ msgType = "ArchitectureSelected" -> AddAppsScreen
      [] current = AddAppsScreen /\ msgType = "AppTypeSelected" -> AppConfigScreen
      [] current = AppConfigScreen /\ msgType = "AppConfigComplete" -> AddAnotherAppScreen
      [] current = AddAnotherAppScreen /\ msgType = "AddAnotherAppSelected" -> AddAppsScreen
      [] current = DevToolsScreen /\ msgType = "DevToolsSelected" -> InfrastructureScreen
      [] current = InfrastructureScreen /\ msgType = "InfrastructureSelected" ->
            CIPipelineScreen
      [] current = CIPipelineScreen /\ msgType = "CIPipelineSelected" -> AIToolsScreen
      [] current = AIToolsScreen -> GeneratingScreen
      [] current = GeneratingScreen /\ msgType = "GenerationComplete" -> CompleteScreen
      [] OTHER -> current

GetNextScreen(current, msgType) ==
    CASE current = WelcomeScreen /\ msgType = "WelcomeComplete" -> ProjectSetupScreen
      [] current = ProjectSetupScreen /\ msgType = "ProjectSetupComplete" ->
            ArchitectureScreen
      [] current = ArchitectureScreen /\ msgType = "ArchitectureSelected" -> AddAppsScreen
      [] current = AddAppsScreen /\ msgType = "AppTypeSelected" -> AppConfigScreen
      [] current = AppConfigScreen /\ msgType = "AppConfigComplete" -> AddAnotherAppScreen
      [] current = AddAnotherAppScreen /\ msgType = "AddAnotherAppSelected" -> AddAppsScreen
      [] current = DevToolsScreen /\ msgType = "DevToolsSelected" -> InfrastructureScreen
      [] current = InfrastructureScreen /\ msgType = "InfrastructureSelected" ->
            CIPipelineScreen
      [] current = CIPipelineScreen /\ msgType = "CIPipelineSelected" -> AIToolsScreen
      [] current = AIToolsScreen /\ msgType = "AIToolsSelected" -> GeneratingScreen
      [] current = GeneratingScreen /\ msgType = "GenerationComplete" -> CompleteScreen
      [] OTHER -> current

----------------------------------------------------------------------------
(* cache: the render cache, StructureCache.  sc.cache is a function on the *)
(* keys it stores.  Time is counted in ticks of the clock.                 *)

\* The capacities a cache of the model is built with.
Capacities == {1, 2}

\* The last tick of the clock.
MaxClock == 3

\* The hit count at which the model stops reading an entry.
MaxHits == 1

\* The lifetimes, in ticks, a cache of the model is built with.
TTLs == {1, 2}

\* The configurations, viewport sizes and rendered texts the calls draw from.
\* The third configuration differs from the first in its description only.
CacheProjects ==
    { [EmptyProject EXCEPT !.Name = "p1"],
      [EmptyProject EXCEPT !.Name = "p2"],
      [EmptyProject EXCEPT !.Name = "p1", !.Description = "other"] }

CacheSizes == { <<80, 24>>, <<100, 30>> }

Contents == { "content1", "content2" }

\* hashProject that hashes the description as well.
hashProjectWithDescription(project) ==
    [ name |-> <<project.Name, project.Description>>,
      architecture |-> project.Architecture,
      applications |-> [ i \in 1..Len(project.Applications) |->
                            [ type |-> project.Applications[i].Type,
                              name |-> project.Applications[i].Name ] ],
      infrastructure |-> [ docker |-> project.Infrastructure.Docker,
                           dockerCompose |-> project.Infrastructure.DockerCompose,
                           pulumi |-> project.Infrastructure.Pulumi,
                           terraform |-> project.Infrastructure.Terraform,
                           cloudProvider |-> project.Infrastructure.CloudProvider ],
      ciPipeline |-> [ provider |-> project.CIPipeline.Provider,
                       featuresNull |-> project.CIPipeline.FeaturesNil,
                       features |-> project.CIPipeline.Features ] ]

\* hashProject: the fields that are hashed stand for their SHA-256 digest.
\* json.Marshal writes a nil slice as null and an empty one as []: the
\* applications are appended to a nil slice, the features are copied.
hashProject(project) ==
    [ name |-> project.Name,
      architecture |-> project.Architecture,
      applications |-> [ i \in 1..Len(project.Applications) |->
                            [ type |-> project.Applications[i].Type,
                              name |-> project.Applications[i].Name ] ],
      infrastructure |-> [ docker |-> project.Infrastructure.Docker,
                           dockerCompose |-> project.Infrastructure.DockerCompose,
                           pulumi |-> project.Infrastructure.Pulumi,
                           terraform |-> project.Infrastructure.Terraform,
                           cloudProvider |-> project.Infrastructure.CloudProvider ],
      ciPipeline |-> [ provider |-> project.CIPipeline.Provider,
                       featuresNull |-> project.CIPipeline.FeaturesNil,
                       features |-> project.CIPipeline.Features ] ]

\* generateKey that leaves the viewport out of the key.
generateKeyWithoutSize(project, terminalWidth, terminalHeight) ==
    [ ProjectHash |-> hashProject(project),
      TerminalWidth |-> 0,
      TerminalHeight |-> 0 ]

generateKey(project, terminalWidth, terminalHeight) ==
    [ ProjectHash |-> hashProject(project),
      TerminalWidth |-> terminalWidth,
      TerminalHeight |-> terminalHeight ]

\* make(map[string]cacheEntry)
EmptyCache == [ k \in {} |-> 0 ]

\* delete(c, key)
Delete(c, key) == [ k \in DOMAIN c \ {key} |-> c[k] ]

\* c[key] = entry
Store(c, key, entry) ==
    [ k \in DOMAIN c \cup {key} |-> IF k = key THEN entry ELSE c[k] ]

NewStructureCache(maxSize, ttl) ==
    [ cache |-> EmptyCache, maxSize |-> maxSize, ttl |-> ttl ]

\* GetStructure that finds the entry and leaves its hit counter alone.
GetStructureNotCounting(sc, project, terminalWidth, terminalHeight, t) ==
    LET key == generateKey(project, terminalWidth, terminalHeight) IN
    IF key \notin DOMAIN sc.cache
    THEN [ sc |-> sc, content |-> "", found |-> FALSE ]
    ELSE IF t - sc.cache[key].timestamp > sc.ttl
    THEN [ sc |-> [sc EXCEPT !.cache = Delete(@, key)],
           content |-> "", found |-> FALSE ]
    ELSE [ sc |-> sc, content |-> sc.cache[key].content, found |-> TRUE ]

\* The first half of GetStructure, under the read lock: the entry stored
\* under the key, if any, is copied.
GetStructureRead(sc, project, terminalWidth, terminalHeight) ==
    LET key == generateKey(project, terminalWidth, terminalHeight) IN
    IF key \in DOMAIN sc.cache
    THEN [ key |-> key, exists |-> TRUE, entry |-> <<sc.cache[key]>> ]
    ELSE [ key |-> key, exists |-> FALSE, entry |-> <<>> ]

\* The second half of GetStructure, for an entry that was found: the copy
\* is tested for expiry at time t, and under the write lock the key is
\* deleted or the copy, with one more hit, is stored under the key.
GetStructureWrite(sc, key, entry, t) ==
    IF t - entry.timestamp > sc.ttl
    THEN [ sc |-> [sc EXCEPT !.cache = Delete(@, key)],
           content |-> "", found |-> FALSE ]
    ELSE [ sc |-> [sc EXCEPT !.cache = Store(@, key, [entry EXCEPT !.hits = @ + 1])],
           content |-> entry.content, found |-> TRUE ]

\* GetStructure whose hit also renews the entry's timestamp.
GetStructureRenewing(sc, project, terminalWidth, terminalHeight, t) ==
    LET key == generateKey(project, terminalWidth, terminalHeight) IN
    IF key \notin DOMAIN sc.cache
    THEN [ sc |-> sc, content |-> "", found |-> FALSE ]
    ELSE IF t - sc.cache[key].timestamp > sc.ttl
    THEN [ sc |-> [sc EXCEPT !.cache = Delete(@, key)],
           content |-> "", found |-> FALSE ]
    ELSE [ sc |-> [sc EXCEPT !.cache[key].hits = @ + 1,
                             !.cache[key].timestamp = t],
           content |-> sc.cache[key].content, found |-> TRUE ]

\* What GetStructure returns at time t, and the cache it leaves.
GetStructure(sc, project, terminalWidth, terminalHeight, t) ==
    LET key == generateKey(project, terminalWidth, terminalHeight) IN
    IF key \notin DOMAIN sc.cache
    THEN [ sc |-> sc, content |-> "", found |-> FALSE ]
    ELSE IF t - sc.cache[key].timestamp > sc.ttl
    THEN [ sc |-> [sc EXCEPT !.cache = Delete(@, key)],
           content |-> "", found |-> FALSE ]
    ELSE [ sc |-> [sc EXCEPT !.cache[key].hits = @ + 1],
           content |-> sc.cache[key].content, found |-> TRUE ]

\* LeastUsed that looks at the timestamps only.
OldestOnly(c) ==
    { k \in DOMAIN c : \A j \in DOMAIN c : ~ (c[j].timestamp < c[k].timestamp) }

\* The keys the loop of evictLeastUsed can end on: no entry has fewer hits,
\* or as many hits and an earlier timestamp.  The order in which the map is
\* ranged over picks among entries that tie in both.
LeastUsed(c) ==
    { k \in DOMAIN c :
        \A j \in DOMAIN c :
            ~ (\/ c[j].hits < c[k].hits
               \/ c[j].hits = c[k].hits /\ c[j].timestamp < c[k].timestamp) }

\* evictLeastUsed, the loop ending on oldestKey.
evictLeastUsed(c, oldestKey) ==
    IF DOMAIN c = {} THEN c ELSE Delete(c, oldestKey)

\* The loop of GetStats over the entries stored under keys.
RECURSIVE SumHits(_, _)
SumHits(c, keys) ==
    IF keys = {} THEN 0
    ELSE LET k == CHOOSE x \in keys : TRUE
         IN  c[k].hits + SumHits(c, keys \ {k})

\* What GetStats returns at time t; it writes nothing.
GetStats(sc, t) ==
    [ TotalEntries |-> Cardinality(DOMAIN sc.cache),
      TotalHits |-> SumHits(sc.cache, DOMAIN sc.cache),
      ExpiredCount |-> Cardinality({ k \in DOMAIN sc.cache :
                                       t - sc.cache[k].timestamp > sc.ttl }),
      MaxSize |-> sc.maxSize,
      TTL |-> sc.ttl ]

\* The cache that SetStructure leaves at time t, should an eviction end on
\* oldestKey.
SetStructure(sc, project, terminalWidth, terminalHeight, content, t, oldestKey) ==
    LET key == generateKey(project, terminalWidth, terminalHeight)
        c1 == IF Cardinality(DOMAIN sc.cache) >= sc.maxSize
              THEN evictLeastUsed(sc.cache, oldestKey)
              ELSE sc.cache
    IN  [sc EXCEPT !.cache =
            Store(c1, key, [ content |-> content, timestamp |-> t, hits |-> 0 ])]

Clear(sc) == [sc EXCEPT !.cache = EmptyCache]

\* The loop of CleanupExpired over the keys still to visit: now is read
\* once, before the loop.
RECURSIVE CleanupLoop(_, _, _, _)
CleanupLoop(c, keys, now, ttl) ==
    IF keys = {} THEN c
    ELSE LET key == CHOOSE x \in keys : TRUE
             c1 == IF now - c[key].timestamp > ttl THEN Delete(c, key) ELSE c
         IN  CleanupLoop(c1, keys \ {key}, now, ttl)

\* CleanupExpired that also removes the entries whose age is the TTL.
CleanupExpiredAtTTL(sc, t) ==
    [sc EXCEPT !.cache = CleanupLoop(@, DOMAIN @, t + 1, sc.ttl)]

CleanupExpired(sc, t) ==
    [sc EXCEPT !.cache = CleanupLoop(@, DOMAIN @, t, sc.ttl)]

----------------------------------------------------------------------------
(* The program: bubbletea delivers one message at a time to Model.Update,  *)
(* keeps the Model it returns and runs the command it returns.             *)

\* The Model the program holds.
M ==
    [ state |-> state, screenModels |-> screenModels,
      windowWidth |-> windowWidth, windowHeight |-> windowHeight ]

\* The single-application flow of TestCompleteUserFlow up to the dev-tools
\* screen, for the application kind t: the k-th message delivered.
FlowEvents(t) ==
    << WelcomeCompleteMsg,
       ProjectSetupCompleteMsg("demo", "a demo"),
       ArchitectureSelectedMsg(ArchitectureTurborepo),
       AppTypeSelectedMsg(t),
       AppConfigCompleteMsg("web", {<<"typescript", "true">>}),
       AddAnotherAppSelectedMsg("continue") >>

\* scenario after msg: one step further while the messages delivered since
\* NewModel are exactly a prefix of FlowEvents(scenario.kind), else off.
ScenarioOff == [ step |-> -1, kind |-> "" ]

ScenarioNext(sc, msg) ==
    IF sc.step < 0 \/ sc.step >= Len(FlowEvents(sc.kind)) THEN ScenarioOff
    ELSE LET kinds == IF sc.step = 3 /\ msg.type = "AppTypeSelected"
                      THEN {msg.AppType}
                      ELSE {sc.kind}
             t == CHOOSE k \in kinds : TRUE
         IN  IF msg = FlowEvents(t)[sc.step + 1]
             THEN [ step |-> sc.step + 1, kind |-> t ]
             ELSE ScenarioOff

\* What is recorded of a call on the cache: the method, the key, what was
\* returned and the keys the call removed.
Call(op, key, content, found, removed) ==
    [ op |-> op, key |-> key, content |-> content, found |-> found,
      removed |-> removed ]

NoCall == Call("none", <<>>, "", FALSE, {})

\* The goroutines that call the cache, none of them inside a call.
Callers == { "g1", "g2" }

Idle == [ pc |-> "idle" ]

NoCallers == [ g \in Callers |-> Idle ]

Init ==
    /\ scenario = [ step |-> 0, kind |-> "" ]
    /\ panicked = FALSE
    /\ state = NewModel.state
    /\ screenModels = NewModel.screenModels
    /\ windowWidth = NewModel.windowWidth
    /\ windowHeight = NewModel.windowHeight
    /\ cmd = <<>>
    /\ running = TRUE
    /\ structureCache = NewStructureCache(50, 300)
    /\ clock = 0
    /\ lastCall = NoCall
    /\ callers = NoCallers
    /\ errorRecovery = <<>>
    /\ handled = <<>>
    /\ generating = NewGeneratingModel
    /\ generatingCmd = <<>>

\* One pass of the event loop: Update(msg), the returned Model replaces the old.
Deliver(msg, emit) ==
    LET r == Update(M, msg, emit) IN
    /\ running
    /\ Len(Apps(r.model)) <= MaxApps
    /\ state' = r.model.state
    /\ screenModels' = r.model.screenModels
    /\ windowWidth' = r.model.windowWidth
    /\ windowHeight' = r.model.windowHeight
    /\ cmd' = r.cmd
    /\ scenario' = ScenarioNext(scenario, msg)
    /\ UNCHANGED <<running, panicked, structureCache, clock, lastCall, callers>>
    /\ UNCHANGED <<logVars, generatingVars>>

WindowResize == \E sz \in WindowSizes : Deliver(WindowSizeMsg(sz[1], sz[2]), <<>>)

PressCtrlC == Deliver(KeyMsg("ctrl+c"), <<>>)

PressEsc == Deliver(KeyMsg("esc"), <<>>)

PressBackspace == Deliver(KeyMsg("backspace"), <<>>)

PressEnter ==
    \E emit \in WidgetEmits(state.CurrentScreen) : Deliver(KeyMsg("enter"), emit)

PressArrow == \E k \in {"down", "up"} : Deliver(KeyMsg(k), <<>>)

\* A completion signal arrives, from the active screen or from a command
\* that an earlier screen returned and that was still in flight.
SendCompletion == \E msg \in CompletionMsgs : Deliver(msg, <<>>)

\* A progress tick arrives.
SendProgress == Deliver(ProgressMsg, <<>>)

\* The runtime runs the command of the latest Update and delivers its message;
\* QuitMsg ends the loop.
RunCmd ==
    /\ running
    /\ cmd # <<>>
    /\ IF cmd[1] = QuitMsg
       THEN /\ running' = FALSE
            /\ cmd' = <<>>
            /\ UNCHANGED <<state, screenModels, windowWidth, windowHeight, scenario,
                           panicked>>
            /\ UNCHANGED <<cacheVars, logVars, generatingVars>>
       ELSE Deliver(cmd[1], <<>>)

Next ==
    \/ WindowResize
    \/ PressCtrlC
    \/ PressEsc
    \/ PressBackspace
    \/ PressEnter
    \/ PressArrow
    \/ SendCompletion
    \/ SendProgress
    \/ RunCmd

Spec == Init /\ [][Next]_vars

\* The runtime runs every command it is handed and delivers every tick.
FairSpec == Spec /\ WF_vars(RunCmd) /\ WF_vars(SendProgress)

\* The runtime calls Model.View after an Update and the preview panics
\* while it is constructed.  Neither View nor its callers in this program
\* recover: the panic leaves the event loop, Run returns an error and main
\* exits.
RenderPanics ==
    /\ running
    /\ View(M) = "panels"
    /\ panicked' = TRUE
    /\ running' = FALSE
    /\ UNCHANGED <<state, screenModels, windowWidth, windowHeight, cmd, scenario>>
    /\ UNCHANGED <<cacheVars, logVars, generatingVars>>

\* The program driven by the keyboard and the terminal alone: every
\* completion signal comes from the command a view-model returned.
UserNext ==
    \/ WindowResize
    \/ PressCtrlC
    \/ PressEsc
    \/ PressBackspace
    \/ PressEnter
    \/ PressArrow
    \/ RunCmd
    \/ RenderPanics

UserSpec == Init /\ [][UserNext]_vars

----------------------------------------------------------------------------
(* The render cache used by one caller at a time: each call runs to its    *)
(* end before the next begins, and the clock advances between calls.       *)

CacheInit ==
    /\ \E maxSize \in Capacities : \E ttl \in TTLs :
          structureCache = NewStructureCache(maxSize, ttl)
    /\ clock = 0
    /\ lastCall = NoCall
    /\ callers = NoCallers
    /\ errorRecovery = <<>>
    /\ handled = <<>>
    /\ generating = NewGeneratingModel
    /\ generatingCmd = <<>>
    /\ state = NewModel.state
    /\ screenModels = NewModel.screenModels
    /\ windowWidth = NewModel.windowWidth
    /\ windowHeight = NewModel.windowHeight
    /\ cmd = <<>>
    /\ running = TRUE
    /\ scenario = [ step |-> 0, kind |-> "" ]
    /\ panicked = FALSE

CallGetStructure ==
    \E project \in CacheProjects : \E sz \in CacheSizes :
        LET key == generateKey(project, sz[1], sz[2])
            r == GetStructure(structureCache, project, sz[1], sz[2], clock)
        IN  /\ key \in DOMAIN structureCache.cache =>
                  structureCache.cache[key].hits < MaxHits
            /\ structureCache' = r.sc
            /\ lastCall' = Call("Get", key, r.content, r.found,
                                DOMAIN structureCache.cache \ DOMAIN r.sc.cache)
            /\ UNCHANGED <<clock, callers, wizardVars, logVars, generatingVars>>

CallSetStructure ==
    \E project \in CacheProjects : \E sz \in CacheSizes : \E content \in Contents :
      \E oldestKey \in IF structureCache.cache = EmptyCache
                       THEN {<<>>}
                       ELSE LeastUsed(structureCache.cache) :
        LET key == generateKey(project, sz[1], sz[2])
            sc1 == SetStructure(structureCache, project, sz[1], sz[2], content,
                                clock, oldestKey)
        IN  /\ structureCache' = sc1
            /\ lastCall' = Call("Set", key, content, FALSE,
                                DOMAIN structureCache.cache \ DOMAIN sc1.cache)
            /\ UNCHANGED <<clock, callers, wizardVars, logVars, generatingVars>>

CallClear ==
    /\ structureCache' = Clear(structureCache)
    /\ lastCall' = Call("Clear", <<>>, "", FALSE, DOMAIN structureCache.cache)
    /\ UNCHANGED <<clock, callers, wizardVars, logVars, generatingVars>>

CallCleanupExpired ==
    LET sc1 == CleanupExpired(structureCache, clock) IN
    /\ structureCache' = sc1
    /\ lastCall' = Call("CleanupExpired", <<>>, "", FALSE,
                        DOMAIN structureCache.cache \ DOMAIN sc1.cache)
    /\ UNCHANGED <<clock, callers, wizardVars, logVars, generatingVars>>

\* GetStats holds the read lock and returns its counts.
CallGetStats ==
    /\ GetStats(structureCache, clock).MaxSize = structureCache.maxSize
    /\ UNCHANGED vars

\* Time passes.
Tick ==
    /\ clock < MaxClock
    /\ clock' = clock + 1
    /\ UNCHANGED <<structureCache, lastCall, callers, wizardVars, logVars, generatingVars>>

CacheNext ==
    \/ CallGetStructure
    \/ CallSetStructure
    \/ CallClear
    \/ CallCleanupExpired
    \/ CallGetStats
    \/ Tick

CacheSpec == CacheInit /\ [][CacheNext]_vars

----------------------------------------------------------------------------
(* The render cache used by several goroutines.  Every section that holds  *)
(* the mutex is one step: SetStructure, Clear and CleanupExpired hold the   *)
(* write lock from start to end, GetStructure holds the read lock while it  *)
(* copies the entry and takes the write lock later.  lastCall is the latest *)
(* SetStructure or Clear that has returned.                                 *)

\* The configurations the goroutines ask for, at one size, and the texts set.
ConcProjects ==
    { [EmptyProject EXCEPT !.Name = "p1"], [EmptyProject EXCEPT !.Name = "p2"] }

ConcSize == <<80, 24>>

ConcContents == { "content1", "content2" }

\* GetStructure up to RUnlock, for a key that is stored; for one that is
\* not, GetStructure returns at once and changes nothing.
GetRead(g) ==
    /\ callers[g] = Idle
    /\ \E project \in ConcProjects :
          LET r == GetStructureRead(structureCache, project, ConcSize[1], ConcSize[2])
          IN  /\ r.exists
              /\ r.entry[1].hits < MaxHits
              /\ callers' = [callers EXCEPT ![g] =
                                [ pc |-> "read", key |-> r.key, entry |-> r.entry[1] ]]
    /\ UNCHANGED <<structureCache, clock, lastCall, wizardVars, logVars, generatingVars>>

\* GetStructure from the expiry test to its return.
GetWrite(g) ==
    /\ callers[g] # Idle
    /\ structureCache' = GetStructureWrite(structureCache, callers[g].key,
                                           callers[g].entry, clock).sc
    /\ callers' = [callers EXCEPT ![g] = Idle]
    /\ UNCHANGED <<clock, lastCall, wizardVars, logVars, generatingVars>>

ConcSetStructure ==
    /\ \E project \in ConcProjects : \E content \in ConcContents :
       \E oldestKey \in IF structureCache.cache = EmptyCache
                        THEN {<<>>}
                        ELSE LeastUsed(structureCache.cache) :
          /\ structureCache' = SetStructure(structureCache, project, ConcSize[1],
                                            ConcSize[2], content, clock, oldestKey)
          /\ lastCall' = Call("Set", generateKey(project, ConcSize[1], ConcSize[2]),
                              content, FALSE, {})
    /\ UNCHANGED <<clock, callers, wizardVars, logVars, generatingVars>>

ConcClear ==
    /\ structureCache' = Clear(structureCache)
    /\ lastCall' = Call("Clear", <<>>, "", FALSE, {})
    /\ UNCHANGED <<clock, callers, wizardVars, logVars, generatingVars>>

ConcCleanupExpired ==
    /\ structureCache' = CleanupExpired(structureCache, clock)
    /\ UNCHANGED <<clock, lastCall, callers, wizardVars, logVars, generatingVars>>

ConcNext ==
    \/ \E g \in Callers : GetRead(g)
    \/ \E g \in Callers : GetWrite(g)
    \/ ConcSetStructure
    \/ ConcClear
    \/ ConcCleanupExpired
    \/ Tick

ConcSpec == CacheInit /\ [][ConcNext]_vars

----------------------------------------------------------------------------
(* The cache key: one configuration is stored in the program's cache and   *)
(* the cache is then asked for, or given, a second one.                    *)

KeyApp(type, name) ==
    [ ID |-> <<"app-", type>>, Name |-> name, Type |-> type,
      Description |-> "", Options |-> {} ]

\* A filled-in configuration, and one that is like it but has chosen no CI
\* features.
KeyBase ==
    [ Name |-> "project1",
      Description |-> "",
      Architecture |-> ArchitectureTurborepo,
      Applications |-> << KeyApp("react", "web"), KeyApp("nest", "api") >>,
      DevTools |-> EmptyProject.DevTools,
      Infrastructure |-> [ Docker |-> TRUE, DockerCompose |-> FALSE,
                           Pulumi |-> FALSE, Terraform |-> FALSE,
                           CloudProvider |-> "aws" ],
      CIPipeline |-> [ Provider |-> "github", Features |-> <<"testing">>,
                       FeaturesNil |-> FALSE ],
      AITools |-> EmptyProject.AITools ]

KeyBaseNoFeatures == [KeyBase EXCEPT !.CIPipeline.Features = <<>>]

\* KeyBase and the configurations that differ from it in one field each.
KeyProjects ==
    { KeyBase,
      [KeyBase EXCEPT !.Name = "project2"],
      [KeyBase EXCEPT !.Architecture = ArchitectureSingle],
      [KeyBase EXCEPT !.Applications = << KeyApp("nest", "api"), KeyApp("react", "web") >>],
      [KeyBase EXCEPT !.Applications[1].Type = "next"],
      [KeyBase EXCEPT !.Applications[1].Name = "site"],
      [KeyBase EXCEPT !.Applications = << KeyApp("react", "web") >>],
      [KeyBase EXCEPT !.Infrastructure.Docker = FALSE],
      [KeyBase EXCEPT !.Infrastructure.DockerCompose = TRUE],
      [KeyBase EXCEPT !.Infrastructure.Pulumi = TRUE],
      [KeyBase EXCEPT !.Infrastructure.Terraform = TRUE],
      [KeyBase EXCEPT !.Infrastructure.CloudProvider = "vercel"],
      [KeyBase EXCEPT !.CIPipeline.Provider = "gitlab"],
      [KeyBase EXCEPT !.CIPipeline.Features = <<"testing", "linting">>],
      KeyBaseNoFeatures,
      [KeyBaseNoFeatures EXCEPT !.CIPipeline.FeaturesNil = TRUE],
      [KeyBase EXCEPT !.Description = "other"],
      [KeyBase EXCEPT !.DevTools.Linting = "biome"],
      [KeyBase EXCEPT !.AITools.Editor = "cursor"],
      [KeyBase EXCEPT !.Applications[1].Options = {"tailwind"}],
      [KeyBase EXCEPT !.Applications[1].Description = "front end"] }

\* KeyProjects at one width and height, at another width, at another height.
KeySizes == { <<80, 24>>, <<100, 24>>, <<80, 30>> }

\* What is recorded of the two calls: the configuration and size of the
\* first, those of the second, and what the second returned.
KeyCall(op, first, second, content, found) ==
    [ op |-> op, first |-> first, second |-> second, content |-> content,
      found |-> found ]

\* getStructureCache: the cache the program creates on first use.
KeyInit ==
    /\ structureCache = NewStructureCache(50, 300)
    /\ clock = 0
    /\ lastCall = KeyCall("none", <<>>, <<>>, "", FALSE)
    /\ callers = NoCallers
    /\ errorRecovery = <<>>
    /\ handled = <<>>
    /\ generating = NewGeneratingModel
    /\ generatingCmd = <<>>
    /\ state = NewModel.state
    /\ screenModels = NewModel.screenModels
    /\ windowWidth = NewModel.windowWidth
    /\ windowHeight = NewModel.windowHeight
    /\ cmd = <<>>
    /\ running = TRUE
    /\ scenario = [ step |-> 0, kind |-> "" ]
    /\ panicked = FALSE

KeySetFirst ==
    /\ lastCall.op = "none"
    /\ \E project \in KeyProjects : \E sz \in KeySizes :
          /\ structureCache' = SetStructure(structureCache, project, sz[1], sz[2],
                                            "content1", clock, <<>>)
          /\ lastCall' = KeyCall("Set", <<project, sz>>, <<>>, "", FALSE)
    /\ UNCHANGED <<clock, callers, wizardVars, logVars, generatingVars>>

KeyGetSecond ==
    /\ lastCall.op = "Set"
    /\ \E project \in KeyProjects : \E sz \in KeySizes :
          LET r == GetStructure(structureCache, project, sz[1], sz[2], clock) IN
          /\ structureCache' = r.sc
          /\ lastCall' = KeyCall("Get", lastCall.first, <<project, sz>>,
                                 r.content, r.found)
    /\ UNCHANGED <<clock, callers, wizardVars, logVars, generatingVars>>

KeySetSecond ==
    /\ lastCall.op = "Set"
    /\ \E project \in KeyProjects : \E sz \in KeySizes :
        \E oldestKey \in LeastUsed(structureCache.cache) :
          /\ structureCache' = SetStructure(structureCache, project, sz[1], sz[2],
                                            "content2", clock, oldestKey)
          /\ lastCall' = KeyCall("SetSecond", lastCall.first, <<project, sz>>,
                                 "", FALSE)
    /\ UNCHANGED <<clock, callers, wizardVars, logVars, generatingVars>>

KeyNext ==
    \/ KeySetFirst
    \/ KeyGetSecond
    \/ KeySetSecond

KeySpec == KeyInit /\ [][KeyNext]_vars

----------------------------------------------------------------------------
(* components: the project-structure panel, rendered through the cache.    *)

getAppFolderName(appType) ==
    CASE appType \in { "next", "react", "tanstack-start" } -> "web"
      [] appType = "expo" -> "mobile"
      [] appType \in { "nest", "basic-node" } -> "api"
      [] OTHER -> "app"

\* styles.GetRightPanelStyle: the width and the height of the panel.
GetRightPanelStyle(terminalWidth, terminalHeight) ==
    LET panelWidth  == (terminalWidth \div 2) - 4
        panelHeight == terminalHeight - 8
    IN  [ Width  |-> IF panelWidth < 45 THEN 45 ELSE panelWidth,
          Height |-> IF panelHeight < 25 THEN 25 ELSE panelHeight ]

\* The text RenderProjectStructure builds when the cache has no entry: the
\* panel it is set in and, in the order written, what each conditional part
\* of the tree contributes.
renderStructure(project, terminalWidth, terminalHeight) ==
    IF project.Name = ""
    THEN [ panel |-> GetRightPanelStyle(terminalWidth, terminalHeight),
           tree  |-> << "Make selections to see your project structure" >> ]
    ELSE [ panel |-> GetRightPanelStyle(terminalWidth, terminalHeight),
           tree  |->
             << project.Name,
                IF Len(project.Applications) > 0 THEN "apps/" ELSE "",
                [ i \in 1..Len(project.Applications) |->
                    << getAppFolderName(project.Applications[i].Type),
                       "package.json",
                       CASE project.Applications[i].Type = "next" -> "next.config.js"
                         [] project.Applications[i].Type = "expo" -> "metro.config.js"
                         [] OTHER -> "",
                       "src/" >> ],
                IF project.CIPipeline.Provider = "github"
                THEN ".github/workflows/ci.yml" ELSE "",
                IF project.Infrastructure.DockerCompose THEN "docker-compose.yml" ELSE "",
                IF project.Infrastructure.Docker THEN "Dockerfile" ELSE "",
                CASE project.Architecture = "nx" -> "nx.json"
                  [] project.Architecture = ArchitectureTurborepo -> "turbo.json"
                  [] OTHER -> "",
                "package.json", ".gitignore", "README.md" >> ]

\* RenderProjectStructure at time t: the cache afterwards, the text returned
\* and whether it came from the cache.
RenderProjectStructure(sc, project, terminalWidth, terminalHeight, t, oldestKey) ==
    LET g == GetStructure(sc, project, terminalWidth, terminalHeight, t) IN
    IF g.found
    THEN [ sc |-> g.sc, text |-> g.content, found |-> TRUE ]
    ELSE LET result == renderStructure(project, terminalWidth, terminalHeight)
         IN  [ sc    |-> SetStructure(g.sc, project, terminalWidth, terminalHeight,
                                      result, t, oldestKey),
               text  |-> result,
               found |-> FALSE ]

\* KeyProjects, a configuration without a name, one of the nx architecture
\* and one with an expo application.
RenderProjects ==
    KeyProjects \cup { [KeyBase EXCEPT !.Name = ""],
                       [KeyBase EXCEPT !.Architecture = "nx"],
                       [KeyBase EXCEPT !.Applications[2].Type = "expo"] }

RenderFirst ==
    /\ lastCall.op = "none"
    /\ \E project \in RenderProjects : \E sz \in KeySizes :
          LET r == RenderProjectStructure(structureCache, project, sz[1], sz[2],
                                          clock, <<>>) IN
          /\ structureCache' = r.sc
          /\ lastCall' = KeyCall("RenderFirst", <<project, sz>>, <<>>, r.text, r.found)
    /\ UNCHANGED <<clock, callers, wizardVars, logVars, generatingVars>>

\* More than the time to live passes between the two calls.
RenderWait ==
    /\ lastCall.op = "RenderFirst"
    /\ clock = 0
    /\ clock' = structureCache.ttl + 1
    /\ UNCHANGED <<structureCache, lastCall, callers, wizardVars, logVars, generatingVars>>

RenderSecond ==
    /\ lastCall.op = "RenderFirst"
    /\ \E project \in RenderProjects : \E sz \in KeySizes :
        \E oldestKey \in LeastUsed(structureCache.cache) :
          LET r == RenderProjectStructure(structureCache, project, sz[1], sz[2],
                                          clock, oldestKey) IN
          /\ structureCache' = r.sc
          /\ lastCall' = KeyCall("RenderSecond", lastCall.first, <<project, sz>>,
                                 r.text, r.found)
    /\ UNCHANGED <<clock, callers, wizardVars, logVars, generatingVars>>

RenderNext ==
    \/ RenderFirst
    \/ RenderWait
    \/ RenderSecond

RenderSpec == KeyInit /\ [][RenderNext]_vars

----------------------------------------------------------------------------
(* The error recovery system: a bounded log of the errors handled.          *)

MaxHandled == 4

LogSizes == {0, 1, 2, 3}

\* isRecoverable: which error types can be recovered from.
isRecoverable(errType) ==
    errType \in {"Validation", "Navigation", "UI", "Panic"}

\* NewTeapotError; the stack trace and the timestamp are left out.
NewTeapotError(errType, message) ==
    [ Type |-> errType, Message |-> message, Recoverable |-> isRecoverable(errType) ]

\* A Go error value: <<>> for nil, a plain error with its text, or a
\* *TeapotError.
NilError == <<>>

PlainError(text) == [ kind |-> "error", text |-> text ]

TeapotErrorPtr(te) == [ kind |-> "teapot", err |-> te ]

ErrorInputs ==
    { NilError, PlainError("error 0"), PlainError("error 1"),
      TeapotErrorPtr(NewTeapotError("Validation", "validation error")) }

NewErrorRecovery(maxLogSize, recoverPanic) ==
    [ errorLog |-> <<>>, maxLogSize |-> maxLogSize, recoverPanic |-> recoverPanic ]

logErrorKeepingOldest(er, err) ==
    LET appended == Append(er.errorLog, err) IN
    [ er EXCEPT !.errorLog =
        IF Len(appended) > er.maxLogSize
        THEN SubSeq(appended, 1, er.maxLogSize)
        ELSE appended ]

\* logError: append, then keep the last maxLogSize entries.
logError(er, err) ==
    LET appended == Append(er.errorLog, err) IN
    [ er EXCEPT !.errorLog =
        IF Len(appended) > er.maxLogSize
        THEN SubSeq(appended, Len(appended) - er.maxLogSize + 1, Len(appended))
        ELSE appended ]

\* The conversion at the head of HandleError: a *TeapotError is used as it
\* is, any other error is wrapped as an Unknown one with its text.
Structured(err) ==
    IF err.kind = "teapot" THEN err.err ELSE NewTeapotError("Unknown", err.text)

\* HandleError: the ErrorRecovery afterwards and the command returned.
HandleError(er, err) ==
    IF err = NilError
    THEN [ er |-> er, cmd |-> <<>> ]
    ELSE LET teapotErr == Structured(err) IN
         [ er  |-> logError(er, teapotErr),
           cmd |-> << [ type  |-> IF teapotErr.Recoverable
                                  THEN "ErrorRecoveredMsg" ELSE "ErrorOccurredMsg",
                        Error |-> teapotErr ] >> ]

ClearErrorLog(er) == [ er EXCEPT !.errorLog = <<>> ]

LogInit ==
    /\ \E maxLogSize \in LogSizes : errorRecovery = NewErrorRecovery(maxLogSize, TRUE)
    /\ handled = <<>>
    /\ generating = NewGeneratingModel
    /\ generatingCmd = <<>>
    /\ structureCache = NewStructureCache(50, 300)
    /\ clock = 0
    /\ lastCall = NoCall
    /\ callers = NoCallers
    /\ state = NewModel.state
    /\ screenModels = NewModel.screenModels
    /\ windowWidth = NewModel.windowWidth
    /\ windowHeight = NewModel.windowHeight
    /\ cmd = <<>>
    /\ running = TRUE
    /\ scenario = [ step |-> 0, kind |-> "" ]
    /\ panicked = FALSE

CallHandleError ==
    /\ Len(handled) < MaxHandled
    /\ \E err \in ErrorInputs :
          /\ errorRecovery' = HandleError(errorRecovery, err).er
          /\ handled' = Append(handled, err)
    /\ UNCHANGED <<wizardVars, cacheVars, generatingVars>>

CallClearErrorLog ==
    /\ errorRecovery' = ClearErrorLog(errorRecovery)
    /\ handled' = <<>>
    /\ UNCHANGED <<wizardVars, cacheVars, generatingVars>>

LogNext ==
    \/ CallHandleError
    \/ CallClearErrorLog

LogSpec == LogInit /\ [][LogNext]_vars

----------------------------------------------------------------------------
(* The generating view-model on its own: the ticks and the keys reach it   *)
(* directly, as its Init and the commands it returns arrange.              *)

GeneratingKeys == { "enter", "esc" }

GeneratingInit ==
    /\ generating = NewGeneratingModel
    /\ generatingCmd = <<ProgressMsg>>
    /\ errorRecovery = <<>>
    /\ handled = <<>>
    /\ structureCache = NewStructureCache(50, 300)
    /\ clock = 0
    /\ lastCall = NoCall
    /\ callers = NoCallers
    /\ state = NewModel.state
    /\ screenModels = NewModel.screenModels
    /\ windowWidth = NewModel.windowWidth
    /\ windowHeight = NewModel.windowHeight
    /\ cmd = <<>>
    /\ running = TRUE
    /\ scenario = [ step |-> 0, kind |-> "" ]
    /\ panicked = FALSE

\* A tick delivers its ProgressMsg.
GeneratingTick ==
    LET r == GeneratingUpdate(generating, ProgressMsg) IN
    /\ generating' = r.model
    /\ generatingCmd' = r.cmd
    /\ UNCHANGED <<wizardVars, cacheVars, logVars>>

GeneratingKey ==
    \E k \in GeneratingKeys :
        LET r == GeneratingUpdate(generating, KeyMsg(k)) IN
        /\ generating' = r.model
        /\ generatingCmd' = r.cmd
        /\ UNCHANGED <<wizardVars, cacheVars, logVars>>

GeneratingNext ==
    \/ GeneratingTick
    \/ GeneratingKey

GeneratingSpec == GeneratingInit /\ [][GeneratingNext]_vars

----------------------------------------------------------------------------
(* Properties of the application list and of the application in progress.  *)

\* Every message the event loop delivers in the model.
Events ==
    CompletionMsgs \cup { KeyMsg(k) : k \in Keys } \cup { ProgressMsg }
    \cup { WindowSizeMsg(sz[1], sz[2]) : sz \in WindowSizes }

AppConfigCompleteMsgs ==
    { AppConfigCompleteMsg(n, o) : n \in AppNames, o \in OptionSets }

\* apps without its last element, element by element.
IsFrontOf(front, apps) ==
    /\ Len(front) = Len(apps) - 1
    /\ \A i \in 1..Len(front) : front[i] = apps[i]

\* C1: going back from the add-another screen with n >= 1 applications
\* committed removes exactly the last one, makes it the application in
\* progress, leaves the first n-1 as they were and lands on the configuration
\* screen; with no application committed neither the list nor the application
\* in progress changes.  Checked for the navigation engine's NavigateBack and
\* for the controller's handleBackNavigation, on every reachable AppState.
C1_BackFromAddAnotherPopsLast ==
    LET apps == state.Project.Applications
        n == Len(apps)
        nb == NavigateBack(AddAnotherAppScreen, state)
        hb == handleBackNavigation([M EXCEPT !.state.CurrentScreen = AddAnotherAppScreen])
        kb == Update(M, KeyMsg("backspace"), <<>>).model
    IN  /\ n >= 1 =>
              /\ IsFrontOf(nb.state.Project.Applications, apps)
              /\ nb.state.CurrentApp = <<apps[n]>>
              /\ nb.screen = AppConfigScreen
              /\ IsFrontOf(hb.state.Project.Applications, apps)
              /\ hb.state.CurrentApp = <<apps[n]>>
              /\ hb.state.CurrentScreen = AppConfigScreen
        /\ n = 0 =>
              /\ nb.state.Project.Applications = apps
              /\ nb.state.CurrentApp = state.CurrentApp
              /\ hb.state.Project.Applications = apps
              /\ hb.state.CurrentApp = state.CurrentApp
        /\ state.CurrentScreen = AddAnotherAppScreen => kb = hb

\* An application that was committed and taken back is in progress again,
\* with an earlier application still in the list.
C1_Witness ==
    /\ state.CurrentScreen = AppConfigScreen
    /\ state.CurrentApp # <<>>
    /\ state.CurrentApp[1].Name \in AppNames
    /\ Len(state.Project.Applications) >= 1

\* C2: on the configuration screen with an application in progress, a
\* configuration-complete event followed by a back navigation ends on the
\* configuration screen again, with an application in progress of the kind
\* that was committed and as many applications in the list as before.
C2_CommitThenBackRoundTrip ==
    (state.CurrentScreen = AppConfigScreen /\ state.CurrentApp # <<>>) =>
        \A msg \in AppConfigCompleteMsgs :
            LET m1 == Update(M, msg, <<>>).model
                m2 == Update(m1, KeyMsg("backspace"), <<>>).model
            IN  /\ m1.state.CurrentScreen = AddAnotherAppScreen
                /\ m2.state.CurrentScreen = AppConfigScreen
                /\ m2.state.CurrentApp # <<>>
                /\ m2.state.CurrentApp[1].Type = state.CurrentApp[1].Type
                /\ Len(Apps(m2)) = Len(Apps(M))

\* The first application was committed and taken back: it is in progress with
\* the name and options of the commit, and the list is empty again.
C2_Witness ==
    /\ state.CurrentScreen = AppConfigScreen
    /\ state.CurrentApp # <<>>
    /\ state.CurrentApp[1].Name \in AppNames
    /\ state.CurrentApp[1].Options \in OptionSets
    /\ state.Project.Applications = <<>>

\* C3: the application list changes in two ways only: a configuration-complete
\* event handled on the configuration screen appends the application in
\* progress with the event's name and options, and a back navigation from the
\* add-another screen removes the last entry.  Every entry of the list has the
\* name and options of a configuration-complete event.
C3_ApplicationsChangeOnlyByCommitAndPop ==
    LET apps == state.Project.Applications
        cur == state.CurrentScreen
    IN  /\ \A i \in 1..Len(apps) :
              apps[i].Name \in AppNames /\ apps[i].Options \in OptionSets
        /\ \A msg \in Events : \A emit \in WidgetEmits(cur) \cup {<<>>} :
              LET after == Apps(Update(M, msg, emit).model)
              IN  \/ after = apps
                  \/ /\ msg.type = "AppConfigComplete"
                     /\ cur = AppConfigScreen
                     /\ state.CurrentApp # <<>>
                     /\ after = Append(apps, [state.CurrentApp[1] EXCEPT
                                                !.Name = msg.AppName,
                                                !.Options = msg.Options])
                  \/ /\ msg = KeyMsg("backspace")
                     /\ cur = AddAnotherAppScreen
                     /\ Len(apps) > 0
                     /\ IsFrontOf(after, apps)

\* Two applications of different kinds are committed and a third kind
\* selection is under way.
C3_Witness ==
    /\ Len(state.Project.Applications) = 2
    /\ state.Project.Applications[1].Type # state.Project.Applications[2].Type
    /\ state.CurrentScreen = AppConfigScreen
    /\ state.CurrentApp # <<>>
    /\ state.CurrentApp[1].Name \notin AppNames

\* C4: at most one application is in progress, and one is in progress only
\* while the configuration screen or the add-another screen is active.
C4_CurrentAppOnlyWhileConfiguring ==
    /\ Len(state.CurrentApp) <= 1
    /\ state.CurrentApp # <<>> =>
          state.CurrentScreen \in { AppConfigScreen, AddAnotherAppScreen }

\* A freshly selected application is in progress on the configuration screen.
C4_Witness ==
    /\ state.CurrentScreen = AppConfigScreen
    /\ state.CurrentApp # <<>>
    /\ state.CurrentApp[1].Name = state.CurrentApp[1].Type
    /\ state.CurrentApp[1].Options = {}
    /\ state.Project.Applications = <<>>

----------------------------------------------------------------------------
(* Properties of the controller's handling of events.                      *)

\* C5: after each configuration-complete event that commits an application,
\* the add-another view-model in use has appCount = len(Applications) and the
\* architecture that was chosen, for the first application and for every
\* later one.  The step from the configuration screen to the add-another
\* screen is the commit.
C5_AddAnotherModelFollowsCommit ==
    [][ (state.CurrentScreen = AppConfigScreen
            /\ state'.CurrentScreen = AddAnotherAppScreen) =>
        /\ screenModels'[AddAnotherAppScreen] # <<>>
        /\ screenModels'[AddAnotherAppScreen][1].appCount =
              Len(state'.Project.Applications)
        /\ screenModels'[AddAnotherAppScreen][1].architectureType =
              state'.Project.Architecture ]_vars

\* The screen whose rule of Update handles the completion signal msg.
EventScreen(msg) ==
    CASE msg.type = "WelcomeComplete" -> WelcomeScreen
      [] msg.type = "ProjectSetupComplete" -> ProjectSetupScreen
      [] msg.type = "ArchitectureSelected" -> ArchitectureScreen
      [] msg.type = "AppTypeSelected" -> AddAppsScreen
      [] msg.type = "AppConfigComplete" -> AppConfigScreen
      [] msg.type = "AddAnotherAppSelected" -> AddAnotherAppScreen
      [] msg.type = "DevToolsSelected" -> DevToolsScreen
      [] msg.type = "InfrastructureSelected" -> InfrastructureScreen
      [] msg.type = "CIPipelineSelected" -> CIPipelineScreen
      [] msg.type = "AIToolsSelected" -> AIToolsScreen
      [] msg.type = "GenerationComplete" -> GeneratingScreen

\* C6: a completion event that arrives while another screen than its own is
\* active, or a configuration-complete event that finds no application in
\* progress, changes nothing: the Model that Update returns is the Model it
\* was given (CurrentScreen, Project, CurrentApp, the view-models) and no
\* command is returned.
C6_StaleCompletionIgnored ==
    \A msg \in CompletionMsgs :
        (\/ EventScreen(msg) # state.CurrentScreen
         \/ msg.type = "AppConfigComplete" /\ state.CurrentApp = <<>>)
        => Update(M, msg, <<>>) = Result(M, <<>>)

\* The add-another screen right after a commit: a repeated
\* configuration-complete event arrives on another screen than its own and
\* finds no application in progress.
C6_Witness ==
    /\ state.CurrentScreen = AddAnotherAppScreen
    /\ state.CurrentApp = <<>>
    /\ Len(state.Project.Applications) = 1
    /\ ~state.Quitting
    /\ \E msg \in AppConfigCompleteMsgs : Update(M, msg, <<>>) = Result(M, <<>>)

\* C7: once Quitting is set, every later event leaves CurrentScreen, Project
\* and CurrentApp as they were, Quitting stays set and nothing is rendered.
C7_NoChangeAfterQuitting ==
    [][ state.Quitting =>
        /\ state'.CurrentScreen = state.CurrentScreen
        /\ state'.Project = state.Project
        /\ state'.CurrentApp = state.CurrentApp
        /\ state'.Quitting
        /\ View(M) = "" ]_vars

\* C8: while the user does not quit, the generating screen is followed by the
\* complete screen without any input: the ticks are started and delivered
\* and the completion is applied.
C8_GeneratingReachesComplete ==
    (state.CurrentScreen = GeneratingScreen /\ ~state.Quitting /\ running)
        ~> (state.CurrentScreen = CompleteScreen \/ state.Quitting \/ ~running)

\* C9: an AI-tools-selected event handled on the AI-tools screen stores the
\* editor and the extensions and moves to the YAML preview screen.  The only
\* other ways to leave the AI-tools screen are back to the CI screen.
C9_AIToolsSelectedShowsYAMLPreview ==
    [][ (state.CurrentScreen = AIToolsScreen
            /\ state'.CurrentScreen \notin { AIToolsScreen, CIPipelineScreen }) =>
        /\ state'.CurrentScreen = YAMLPreviewScreen
        /\ state'.Project.AITools.Editor \in Editors
        /\ state'.Project.AITools.Extensions \in ExtensionLists ]_vars

\* C10: from a new Model, the events welcome-complete, project-setup-complete
\* with a name, architecture-selected with the multi-application architecture,
\* kind-selected with a kind A, configuration-complete with the name "web"
\* and add-another "continue" end on the dev-tools screen with exactly one
\* application, of kind A and named "web", and with the project's name and
\* architecture stored.
C10_SingleAppFlowReachesDevTools ==
    scenario.step = 6 =>
        /\ state.CurrentScreen = DevToolsScreen
        /\ Len(state.Project.Applications) = 1
        /\ state.Project.Applications[1].Type = scenario.kind
        /\ state.Project.Applications[1].Name = "web"
        /\ scenario.kind \in AppTypes
        /\ state.Project.Name = "demo"
        /\ state.Project.Architecture = ArchitectureTurborepo
        /\ state.CurrentApp = <<>>

\* The six events of the flow have been delivered, with the second kind of
\* the selection list.
C10_Witness ==
    /\ scenario.step = 6
    /\ scenario.kind = AddAppsList[2]
    /\ state.CurrentScreen = DevToolsScreen

----------------------------------------------------------------------------
(* The add-another decision and the add/configure/commit loop.             *)

\* The kinds of up to three applications, in the order they are committed.
KindSeqs == UNION { [1..k -> AppTypes] : k \in 1..3 }

RECURSIVE CommitLoop(_, _)
\* The Model after the loop select kind / configuration-complete is run for
\* each kind of kinds in order, with an add-another "add" between two rounds,
\* starting from m on the kind-selection screen.
CommitLoop(m, kinds) ==
    IF kinds = <<>> THEN m
    ELSE LET m1 == Update(m, AppTypeSelectedMsg(Head(kinds)), <<>>).model
             m2 == Update(m1, AppConfigCompleteMsg("web", {<<"typescript", "true">>}),
                          <<>>).model
         IN  IF Len(kinds) = 1 THEN m2
             ELSE CommitLoop(Update(m2, AddAnotherAppSelectedMsg("add"), <<>>).model,
                             Tail(kinds))

\* C11: on the add-another screen the action "add" moves to the
\* kind-selection screen and every other action to the dev-tools screen, and
\* neither changes Applications; running the add/configure/commit loop k
\* times from the kind-selection screen adds exactly k applications to the
\* list, in the order they were committed.
C11_AddAnotherDecisionAndLoop ==
    /\ state.CurrentScreen = AddAnotherAppScreen =>
          \A a \in AddAnotherActions \cup {"", "done"} :
              LET m1 == Update(M, AddAnotherAppSelectedMsg(a), <<>>).model
              IN  /\ m1.state.CurrentScreen =
                        IF a = "add" THEN AddAppsScreen ELSE DevToolsScreen
                  /\ Apps(m1) = Apps(M)
    /\ state.CurrentScreen = AddAppsScreen =>
          \A kinds \in KindSeqs :
              LET after == Apps(CommitLoop(M, kinds))
                  n == Len(Apps(M))
              IN  /\ Len(after) = n + Len(kinds)
                  /\ SubSeq(after, 1, n) = Apps(M)
                  /\ \A i \in 1..Len(kinds) :
                        after[n + i].Type = kinds[i] /\ after[n + i].Name = "web"

\* Two rounds of the loop are done, the kinds in the order of their commits,
\* and "add" has opened the kind selection for a third.
C11_Witness ==
    /\ state.CurrentScreen = AddAppsScreen
    /\ Len(state.Project.Applications) = 2
    /\ state.Project.Applications[1].Type = AddAppsList[1]
    /\ state.Project.Applications[2].Type = AddAppsList[2]
    /\ state.CurrentApp = <<>>

----------------------------------------------------------------------------
(* Properties of the navigation engine, on every screen and on every       *)
(* AppState the wizard reaches.                                            *)

\* C12: for every screen s that cannot be left backwards and every state,
\* NavigateBack(s, state) returns the state with no field changed, the
\* screen s and no view-model, and applying it again to what it returned
\* gives the same.
C12_NavigateBackNoOpOnRestrictedScreens ==
    \A s \in Screens :
        ~CanNavigateBack(s) =>
            LET r == NavigateBack(s, state)
            IN  /\ r.state = state
                /\ r.screen = s
                /\ r.model = <<>>
                /\ NavigateBack(r.screen, r.state) = r

\* The generating screen is active, with applications committed.
C12_Witness ==
    /\ state.CurrentScreen = GeneratingScreen
    /\ ~CanNavigateBack(state.CurrentScreen)
    /\ Len(state.Project.Applications) >= 1
    /\ NavigateBack(state.CurrentScreen, state).screen = GeneratingScreen

\* C13: CanNavigateBack is false for the welcome, generating and complete
\* screens and true for every other screen; it is a function of the screen
\* alone and changes no state.
C13_CanNavigateBackTable ==
    /\ ~CanNavigateBack(WelcomeScreen)
    /\ ~CanNavigateBack(GeneratingScreen)
    /\ ~CanNavigateBack(CompleteScreen)
    /\ \A s \in Screens \ { WelcomeScreen, GeneratingScreen, CompleteScreen } :
          CanNavigateBack(s)
    /\ CanNavigateBack(state.CurrentScreen) <=>
          state.CurrentScreen \notin { WelcomeScreen, GeneratingScreen, CompleteScreen }

\* The complete screen is active.
C13_Witness ==
    /\ state.CurrentScreen = CompleteScreen
    /\ ~CanNavigateBack(state.CurrentScreen)
    /\ screenModels[CompleteScreen] # <<>>

\* The backward table of NewNavigationFlow: <<screen, predecessor>>.
BackTable ==
    { <<ProjectSetupScreen, WelcomeScreen>>,
      <<ArchitectureScreen, ProjectSetupScreen>>,
      <<AppConfigScreen, AddAppsScreen>>,
      <<DevToolsScreen, AddAnotherAppScreen>>,
      <<InfrastructureScreen, DevToolsScreen>>,
      <<CIPipelineScreen, InfrastructureScreen>>,
      <<AIToolsScreen, CIPipelineScreen>> }

\* C14: GetPreviousScreen returns the fixed predecessor of a statically
\* mapped screen; for the kind-selection screen it returns the architecture
\* screen when no application is committed and the add-another screen when
\* one is; for a screen with no mapping it returns the screen it was given.
C14_GetPreviousScreenTable ==
    /\ \A e \in BackTable : GetPreviousScreen(e[1], state) = e[2]
    /\ GetPreviousScreen(AddAppsScreen, state) =
          IF Len(state.Project.Applications) = 0
          THEN ArchitectureScreen
          ELSE AddAnotherAppScreen
    /\ \A s \in { WelcomeScreen, YAMLPreviewScreen, GeneratingScreen, CompleteScreen } :
          GetPreviousScreen(s, state) = s

\* The kind-selection screen is active with one application committed: its
\* predecessor is the add-another screen.
C14_Witness ==
    /\ state.CurrentScreen = AddAppsScreen
    /\ Len(state.Project.Applications) = 1
    /\ state.CurrentApp = <<>>
    /\ GetPreviousScreen(state.CurrentScreen, state) = AddAnotherAppScreen

\* The forward table: <<screen, name of its completion event, destination>>.
ForwardTable ==
    { <<WelcomeScreen, "WelcomeComplete", ProjectSetupScreen>>,
      <<ProjectSetupScreen, "ProjectSetupComplete", ArchitectureScreen>>,
      <<ArchitectureScreen, "ArchitectureSelected", AddAppsScreen>>,
      <<AddAppsScreen, "AppTypeSelected", AppConfigScreen>>,
      <<AppConfigScreen, "AppConfigComplete", AddAnotherAppScreen>>,
      <<AddAnotherAppScreen, "AddAnotherAppSelected", AddAppsScreen>>,
      <<DevToolsScreen, "DevToolsSelected", InfrastructureScreen>>,
      <<InfrastructureScreen, "InfrastructureSelected", CIPipelineScreen>>,
      <<CIPipelineScreen, "CIPipelineSelected", AIToolsScreen>>,
      <<AIToolsScreen, "AIToolsSelected", GeneratingScreen>>,
      <<GeneratingScreen, "GenerationComplete", CompleteScreen>> }

\* The event names GetNextScreen is asked about: every completion event's
\* name and names that belong to no screen.
EventNames ==
    { e[2] : e \in ForwardTable } \cup { "UnrecognizedEvent", "InvalidMsg", "SomeMsg", "" }

\* C15: GetNextScreen maps a screen and the name of its own completion event
\* to the destination of the forward table, and returns the current screen
\* for every other pair: a name of another screen, an unknown name, a screen
\* without outgoing transition.
C15_GetNextScreenTable ==
    /\ \A s \in Screens : \A n \in EventNames :
          GetNextScreen(s, n) =
              IF \E e \in ForwardTable : e[1] = s /\ e[2] = n
              THEN (CHOOSE e \in ForwardTable : e[1] = s /\ e[2] = n)[3]
              ELSE s
    /\ \A msg \in CompletionMsgs :
          EventScreen(msg) # state.CurrentScreen =>
              GetNextScreen(state.CurrentScreen, msg.type) = state.CurrentScreen

\* The AI-tools screen is active: its own event leads on, every other name
\* stays.
C15_Witness ==
    /\ state.CurrentScreen = AIToolsScreen
    /\ GetNextScreen(state.CurrentScreen, "AIToolsSelected") = GeneratingScreen
    /\ GetNextScreen(state.CurrentScreen, "GenerationComplete") = AIToolsScreen

\* C16: going back from the configuration screen clears the application in
\* progress, leaves Applications unchanged, leads to the kind-selection
\* screen and returns no view-model; so for the engine on every state, and
\* for the controller when the configuration screen is active.
C16_BackFromAppConfigClearsCurrentApp ==
    LET r == NavigateBack(AppConfigScreen, state)
        hb == Update(M, KeyMsg("backspace"), <<>>).model
    IN  /\ r.state.CurrentApp = <<>>
        /\ r.state.Project = state.Project
        /\ r.screen = AddAppsScreen
        /\ r.model = <<>>
        /\ state.CurrentScreen = AppConfigScreen =>
              /\ hb.state.CurrentApp = <<>>
              /\ hb.state.Project = state.Project
              /\ hb.state.CurrentScreen = AddAppsScreen
              /\ hb.screenModels = screenModels

\* The kind-selection screen after a configuration was abandoned: the
\* configuration view-model exists, nothing is committed or in progress.
C16_Witness ==
    /\ state.CurrentScreen = AddAppsScreen
    /\ screenModels[AppConfigScreen] # <<>>
    /\ state.Project.Applications = <<>>
    /\ state.CurrentApp = <<>>

----------------------------------------------------------------------------
(* The quit keys.                                                          *)

\* C17: on every screen Ctrl+C sets Quitting and returns the quit command;
\* Esc does the same on every screen but the generating and the complete
\* screen, where handling Esc leaves Quitting as it was, false unless the
\* user had quit before.
C17_QuitKeys ==
    LET c == Update(M, KeyMsg("ctrl+c"), <<>>)
        e == Update(M, KeyMsg("esc"), <<>>)
    IN  /\ c.model.state.Quitting
        /\ c.cmd = <<QuitMsg>>
        /\ c.model = [M EXCEPT !.state.Quitting = TRUE]
        /\ IF state.CurrentScreen \in { GeneratingScreen, CompleteScreen }
           THEN e.model.state.Quitting = state.Quitting
           ELSE /\ e.model.state.Quitting
                /\ e.cmd = <<QuitMsg>>
                /\ e.model = [M EXCEPT !.state.Quitting = TRUE]

\* Esc was handled on the generating screen: the screen's own quit command
\* is pending and Quitting is false.
C17_Witness ==
    /\ state.CurrentScreen = GeneratingScreen
    /\ ~state.Quitting
    /\ cmd = <<QuitMsg>>
    /\ running

----------------------------------------------------------------------------
(* Properties of the render cache in sequential use.                       *)

\* The keys structureCache stores.
StoredKeys == DOMAIN structureCache.cache

\* The victims an eviction by SetStructure can end on in the current state.
Victims ==
    IF structureCache.cache = EmptyCache THEN {<<>>}
    ELSE LeastUsed(structureCache.cache)

\* The state part of C18.
C18_GetAfterSet ==
    /\ \A project \in CacheProjects : \A sz \in CacheSizes :
          LET key == generateKey(project, sz[1], sz[2])
              g == GetStructure(structureCache, project, sz[1], sz[2], clock)
          IN  /\ key \notin StoredKeys =>
                    g = [ sc |-> structureCache, content |-> "", found |-> FALSE ]
              /\ (key \in StoredKeys
                    /\ clock - structureCache.cache[key].timestamp <= structureCache.ttl)
                 => (g.found /\ g.content = structureCache.cache[key].content)
              /\ \A content \in Contents : \A oldestKey \in Victims :
                    LET sc1 == SetStructure(structureCache, project, sz[1], sz[2],
                                            content, clock, oldestKey)
                    IN  /\ \A d \in 0..structureCache.ttl :
                              LET g1 == GetStructure(sc1, project, sz[1], sz[2], clock + d)
                              IN  g1.found /\ g1.content = content
                        /\ \A other \in CacheSizes \ {sz} :
                              generateKey(project, other[1], other[2]) \notin StoredKeys =>
                                  LET g2 == GetStructure(sc1, project, other[1],
                                                         other[2], clock)
                                  IN  ~g2.found /\ g2.content = ""
    /\ (lastCall.op = "Get" /\ lastCall.found) =>
          /\ lastCall.key \in StoredKeys
          /\ structureCache.cache[lastCall.key].content = lastCall.content

\* The step part of C18: a key comes to be stored, and the content stored
\* under a key changes, through a SetStructure for that key only.
C18_ContentOnlyBySet ==
    \A k \in DOMAIN structureCache'.cache :
        (\/ k \notin StoredKeys
         \/ structureCache'.cache[k].content # structureCache.cache[k].content)
        => (lastCall'.op = "Set" /\ lastCall'.key = k
                /\ structureCache'.cache[k].content = lastCall'.content)

\* C18: for every configuration, width and height, a GetStructure that
\* follows a SetStructure of the same triple returns the content that was set
\* and true, as long as the entry is not older than the TTL and was not
\* evicted or cleared; a GetStructure for a key that is not stored, never
\* set or set with another width or height only, returns "" and false.
C18_GetReturnsWhatWasSet ==
    [] C18_GetAfterSet /\ [][C18_ContentOnlyBySet]_vars

\* A GetStructure hit an entry that was set a tick earlier.
C18_Witness ==
    /\ lastCall.op = "Get"
    /\ lastCall.found
    /\ lastCall.content = "content2"
    /\ lastCall.key \in StoredKeys
    /\ structureCache.cache[lastCall.key].timestamp < clock

\* The step part of C19: when a key that was not stored enters a full cache,
\* exactly one entry leaves, none had fewer hits than it, none with as many
\* hits was older, the others stay as they were and maxSize entries remain.
C19_EvictsLeastUsed ==
    LET c == structureCache.cache
        d == structureCache'.cache
    IN  \A key \in DOMAIN d \ DOMAIN c :
            Cardinality(DOMAIN c) = structureCache.maxSize =>
                /\ Cardinality(DOMAIN d) = structureCache.maxSize
                /\ \E v \in DOMAIN c :
                      /\ DOMAIN d = (DOMAIN c \ {v}) \cup {key}
                      /\ \A j \in DOMAIN c \ {v} :
                            /\ d[j] = c[j]
                            /\ \/ c[v].hits < c[j].hits
                               \/ c[v].hits = c[j].hits
                                    /\ c[v].timestamp <= c[j].timestamp

\* C19: with a capacity of at least one and one caller at a time the cache
\* never holds more than maxSize entries: a SetStructure of a new key into a
\* full cache first evicts exactly one entry, the one with the lowest hit
\* count and among those the oldest, and maxSize entries remain.
C19_BoundedByMaxSize ==
    [] (structureCache.maxSize >= 1
            /\ Cardinality(StoredKeys) <= structureCache.maxSize)
    /\ [][C19_EvictsLeastUsed]_vars

\* A SetStructure into a full cache of two evicted one entry and spared the
\* older one, which had been read.
C19_Witness ==
    /\ lastCall.op = "Set"
    /\ Cardinality(lastCall.removed) = 1
    /\ structureCache.maxSize = 2
    /\ Cardinality(StoredKeys) = 2
    /\ \E k \in StoredKeys \ {lastCall.key} :
          /\ structureCache.cache[k].hits = 1
          /\ structureCache.cache[k].timestamp = 0
    /\ structureCache.cache[lastCall.key].timestamp >= 2

\* The state part of C20.
C20_HitWhileYoung ==
    \A project \in CacheProjects : \A sz \in CacheSizes :
        LET key == generateKey(project, sz[1], sz[2])
            g == GetStructure(structureCache, project, sz[1], sz[2], clock)
        IN  key \in StoredKeys =>
                LET e == structureCache.cache[key] IN
                IF clock - e.timestamp <= structureCache.ttl
                THEN /\ g.found
                     /\ g.content = e.content
                     /\ g.sc.cache[key].timestamp = e.timestamp
                     /\ DOMAIN g.sc.cache = StoredKeys
                ELSE /\ ~g.found
                     /\ g.content = ""
                     /\ g.sc.cache = Delete(structureCache.cache, key)

\* The step part of C20: the timestamp of an entry is the time of the
\* SetStructure that stored it, and no other call changes it.
C20_TimestampFromSet ==
    \A k \in DOMAIN structureCache'.cache :
        (\/ k \notin StoredKeys
         \/ structureCache'.cache[k].timestamp # structureCache.cache[k].timestamp)
        => (lastCall'.op = "Set" /\ lastCall'.key = k
                /\ structureCache'.cache[k].timestamp = clock)

\* C20: the lifetime of an entry runs from the SetStructure that stored it:
\* a GetStructure hits while the entry's age is at most ttl, and the first
\* GetStructure after that misses and removes the entry, however often the
\* entry was hit before; a hit does not renew the entry.
C20_LifetimeFromSet ==
    [] C20_HitWhileYoung /\ [][C20_TimestampFromSet]_vars

\* A GetStructure missed on an entry that was stored, and removed it.
C20_Witness ==
    /\ lastCall.op = "Get"
    /\ ~lastCall.found
    /\ lastCall.removed = {lastCall.key}
    /\ lastCall.key \notin StoredKeys

----------------------------------------------------------------------------
(* Properties of the cache key (KeySpec).                                  *)

\* The fields the claim lists, for the configurations a and b.
ListedFieldsAgree(a, b) ==
    /\ a.Name = b.Name
    /\ a.Architecture = b.Architecture
    /\ Len(a.Applications) = Len(b.Applications)
    /\ \A i \in 1..Len(a.Applications) :
          /\ a.Applications[i].Type = b.Applications[i].Type
          /\ a.Applications[i].Name = b.Applications[i].Name
    /\ a.Infrastructure.Docker = b.Infrastructure.Docker
    /\ a.Infrastructure.DockerCompose = b.Infrastructure.DockerCompose
    /\ a.Infrastructure.Pulumi = b.Infrastructure.Pulumi
    /\ a.Infrastructure.Terraform = b.Infrastructure.Terraform
    /\ a.CIPipeline.Provider = b.CIPipeline.Provider
    /\ a.CIPipeline.Features = b.CIPipeline.Features

\* The listed fields, the cloud provider, and whether the feature list is set.
KeyFieldsAgree(a, b) ==
    /\ ListedFieldsAgree(a, b)
    /\ a.Infrastructure.CloudProvider = b.Infrastructure.CloudProvider
    /\ a.CIPipeline.FeaturesNil = b.CIPipeline.FeaturesNil

\* The second call found, or replaced, the entry of the first exactly when
\* share says the two calls share an entry.
SecondCallShares(share) ==
    /\ lastCall.op = "Get" =>
          /\ lastCall.found <=> share
          /\ lastCall.content = IF share THEN "content1" ELSE ""
          /\ Cardinality(StoredKeys) = 1
    /\ lastCall.op = "SetSecond" =>
          Cardinality(StoredKeys) = IF share THEN 1 ELSE 2

\* C21 as stated: two configurations queried with the same width and height
\* share one cache entry whenever they agree on name, architecture, the
\* ordered (kind, name) pairs of the applications, the docker, compose,
\* Pulumi and Terraform flags, the CI provider and the CI feature list,
\* whatever their cloud provider and other fields are; otherwise they use
\* distinct entries.
C21_KeyCoversListedFields ==
    lastCall.op \in {"Get", "SetSecond"} =>
        SecondCallShares(/\ ListedFieldsAgree(lastCall.first[1], lastCall.second[1])
                         /\ lastCall.first[2] = lastCall.second[2])

\* C21 amended: the cloud provider is a field of the key too, and a feature
\* list that was never set differs from an empty one; description, dev
\* tools, AI tools, application options and descriptions are not in the key.
C21_KeyCoversHashedFields ==
    lastCall.op \in {"Get", "SetSecond"} =>
        SecondCallShares(/\ KeyFieldsAgree(lastCall.first[1], lastCall.second[1])
                         /\ lastCall.first[2] = lastCall.second[2])

\* A GetStructure hit the entry that was stored for another configuration.
C21_Witness ==
    /\ lastCall.op = "Get"
    /\ lastCall.found
    /\ lastCall.first[1].Description # lastCall.second[1].Description

----------------------------------------------------------------------------
(* Properties of the render cache used by several goroutines (ConcSpec).   *)

\* C22: a GetStructure removes an entry for expiry only if the entry that is
\* stored under the key when it is removed is itself expired: an entry that
\* another caller set again between the read and the delete of the
\* GetStructure is not removed by it.
C22_GetRemovesOnlyExpired ==
    [][ \A g \in Callers :
          (callers[g] # Idle /\ callers'[g] = Idle) =>
              LET key == callers[g].key IN
              (key \in StoredKeys /\ key \notin DOMAIN structureCache'.cache) =>
                  clock - structureCache.cache[key].timestamp > structureCache.ttl
      ]_vars

\* C23: in every state any interleaving of GetStructure, SetStructure, Clear
\* and CleanupExpired calls reaches on a cache with maxSize >= 1, at most
\* maxSize entries are stored.
C23_BoundedUnderConcurrency ==
    structureCache.maxSize >= 1 =>
        Cardinality(StoredKeys) <= structureCache.maxSize

\* C24: once Clear has returned and until a later SetStructure the cache is
\* empty, so that every GetStructure misses, also when a GetStructure that
\* had read its entry before the Clear returns after it.
C24_ClearDropsAll ==
    lastCall.op = "Clear" => StoredKeys = {}

----------------------------------------------------------------------------
(* Hit counters and statistics of the render cache (CacheSpec).            *)

\* C25: in sequential use a GetStructure that hits raises the hit counter of
\* its entry by exactly one and no other, a miss changes no counter, a
\* freshly set entry has no hits, and GetStats reports the number of stored
\* entries as TotalEntries and the sum of their counters as TotalHits.
C25_HitCountingAndStats ==
    /\ \A project \in CacheProjects : \A sz \in CacheSizes :
          LET key == generateKey(project, sz[1], sz[2])
              g == GetStructure(structureCache, project, sz[1], sz[2], clock)
          IN  /\ g.found =>
                    /\ g.sc.cache[key].hits = structureCache.cache[key].hits + 1
                    /\ \A k \in StoredKeys \ {key} :
                          g.sc.cache[k].hits = structureCache.cache[k].hits
              /\ ~g.found =>
                    \A k \in DOMAIN g.sc.cache :
                        g.sc.cache[k].hits = structureCache.cache[k].hits
              /\ \A content \in Contents : \A oldestKey \in Victims :
                    SetStructure(structureCache, project, sz[1], sz[2], content,
                                 clock, oldestKey).cache[key].hits = 0
    /\ lastCall.op = "Set" => structureCache.cache[lastCall.key].hits = 0
    /\ lastCall.op = "Get" /\ lastCall.found =>
          structureCache.cache[lastCall.key].hits >= 1
    /\ LET stats == GetStats(structureCache, clock) IN
          /\ stats.TotalEntries = Cardinality(StoredKeys)
          /\ stats.TotalHits =
                Cardinality({ kh \in StoredKeys \X (1..MaxHits) :
                                kh[2] <= structureCache.cache[kh[1]].hits })

\* Two entries are stored, one of them was hit once, and GetStats says so.
C25_Witness ==
    /\ lastCall.op = "Get"
    /\ lastCall.found
    /\ structureCache.cache[lastCall.key].hits = 1
    /\ GetStats(structureCache, clock).TotalEntries = 2
    /\ GetStats(structureCache, clock).TotalHits = 1

\* The entries of the cache c that are older than ttl at time t.
Expired(c, t, ttl) == { k \in DOMAIN c : t - c[k].timestamp > ttl }

\* C26: CleanupExpired removes exactly the entries whose age exceeds the TTL
\* and leaves every other entry, with its content, insertion time and hits,
\* as it was.
C26_CleanupRemovesExactlyExpired ==
    [][ (lastCall'.op = "CleanupExpired" /\ lastCall' # lastCall) =>
          LET c == structureCache.cache
              d == structureCache'.cache
          IN  /\ DOMAIN d = DOMAIN c \ Expired(c, clock, structureCache.ttl)
              /\ \A k \in DOMAIN d : d[k] = c[k]
              /\ lastCall'.removed = Expired(c, clock, structureCache.ttl)
              /\ structureCache'.maxSize = structureCache.maxSize
              /\ structureCache'.ttl = structureCache.ttl
      ]_vars

\* CleanupExpired removed an entry and kept another, which had been hit.
C26_Witness ==
    /\ lastCall.op = "CleanupExpired"
    /\ lastCall.removed # {}
    /\ \E k \in StoredKeys :
          /\ structureCache.cache[k].hits = 1
          /\ clock - structureCache.cache[k].timestamp = structureCache.ttl

----------------------------------------------------------------------------
(* Properties of the view-models the controller keeps.                     *)

\* The view-model the controller constructs for screen s in the state st.
FreshModel(s, st) ==
    CASE s = ProjectSetupScreen -> NewProjectSetupModel
      [] s = ArchitectureScreen -> NewArchitectureModel
      [] s = AddAppsScreen -> NewAddAppsModel
      [] s = AddAnotherAppScreen ->
            NewAddAnotherAppModel(Len(st.Project.Applications), st.Project.Architecture)
      [] s = DevToolsScreen -> NewDevToolsModel
      [] s = InfrastructureScreen -> NewInfrastructureModel
      [] s = CIPipelineScreen -> NewCIPipelineModel
      [] s = AIToolsScreen -> NewAIToolsModel
      [] s = GeneratingScreen -> NewGeneratingModel
      [] s = CompleteScreen -> NewCompleteModel(st.Project.Name)

\* The completion events Update acts on in the current state.
HandledEvents ==
    { msg \in CompletionMsgs :
        /\ EventScreen(msg) = state.CurrentScreen
        /\ msg.type = "AppConfigComplete" => state.CurrentApp # <<>> }

\* C27: handling application-kind-selected always installs a fresh
\* configuration view-model, an add-another decision "add" always installs a
\* fresh kind-selection view-model, and "continue" and every other forward
\* transition construct the view-model of their destination only when none
\* exists and keep the existing one as it is otherwise; no other view-model
\* changes.
C27_ViewModelRecreationPolicy ==
    \A msg \in HandledEvents :
        LET r == Update(M, msg, <<>>).model
            dest == r.state.CurrentScreen
        IN  /\ dest # state.CurrentScreen
            /\ \A s \in Screens \ {dest} : r.screenModels[s] = screenModels[s]
            /\ r.screenModels[dest] =
                  IF msg.type = "AppTypeSelected"
                  THEN <<NewAppConfigModel(msg.AppType)>>
                  ELSE IF msg.type = "AddAnotherAppSelected" /\ msg.Action = "add"
                  THEN <<NewAddAppsModel>>
                  ELSE IF screenModels[dest] # <<>>
                  THEN screenModels[dest]
                  ELSE <<FreshModel(dest, r.state)>>

\* The add-another screen is active, its cursor has moved, and a kind-
\* selection view-model whose cursor has moved and a dev-tools view-model
\* exist: "add" replaces the one, "continue" keeps the other.
C27_Witness ==
    /\ state.CurrentScreen = AddAnotherAppScreen
    /\ screenModels[AddAppsScreen] # <<>>
    /\ screenModels[AddAppsScreen][1].cursor = 1
    /\ screenModels[DevToolsScreen] # <<>>
    /\ screenModels[AppConfigScreen] # <<>>

\* The sizes of TestWindowResizing and the size the model's terminal takes.
ResizeSizes == { <<120, 40>>, <<100, 30>>, <<80, 24>> }

\* What the user and the view-models can send in the current state, with
\* what the focused widget would emit.
NavigationInputs ==
    { <<msg, <<>>>> : msg \in CompletionMsgs \cup { KeyMsg(k) : k \in Keys }
                                \cup { ProgressMsg } }
    \cup { <<KeyMsg("enter"), emit>> : emit \in WidgetEmits(state.CurrentScreen) }

\* C28: a window-resize event on any screen sets the stored width and height
\* to the event's values and leaves CurrentScreen, the configuration, the
\* application in progress, Quitting and the view-models unchanged; after
\* it, and after a second resize, every event is handled as before it.
C28_ResizeChangesOnlyTheViewport ==
    \A sz \in ResizeSizes :
        LET r == Update(M, WindowSizeMsg(sz[1], sz[2]), <<>>) IN
        /\ r.model.windowWidth = sz[1]
        /\ r.model.windowHeight = sz[2]
        /\ r.model.state = state
        /\ r.model.screenModels = screenModels
        /\ r.cmd = <<>>
        /\ \A in \in NavigationInputs :
              LET a == Update(M, in[1], in[2])
                  b == Update(r.model, in[1], in[2])
              IN  /\ b.model.state = a.model.state
                  /\ b.model.screenModels = a.model.screenModels
                  /\ b.cmd = a.cmd
                  /\ b.model.windowWidth = sz[1]
                  /\ b.model.windowHeight = sz[2]
        /\ \A sz2 \in ResizeSizes :
              LET r2 == Update(r.model, WindowSizeMsg(sz2[1], sz2[2]), <<>>) IN
              /\ r2.model.state = state
              /\ r2.model.screenModels = screenModels
              /\ r2.model.windowWidth = sz2[1]
              /\ r2.model.windowHeight = sz2[2]

\* The window was resized and an application is being configured.
C28_Witness ==
    /\ windowWidth = 80
    /\ windowHeight = 24
    /\ state.CurrentScreen = AppConfigScreen
    /\ state.CurrentApp # <<>>
    /\ Len(state.Project.Applications) = 1

\* C29: in every reachable state whose architecture is the single-
\* application one, at most one application is committed and the add-another
\* screen, when it is shown, offers "continue" only, also after the user went
\* back and changed the architecture from a multi-application one to single.
C29_SingleArchitectureOneApp ==
    state.Project.Architecture = ArchitectureSingle =>
        /\ Len(state.Project.Applications) <= 1
        /\ (state.CurrentScreen = AddAnotherAppScreen
                /\ screenModels[AddAnotherAppScreen] # <<>>) =>
              screenModels[AddAnotherAppScreen][1].options = <<"continue">>

\* C30: a panic while the preview is constructed is caught where the
\* controller calls the presentation and turned into a recovery transition:
\* afterwards CurrentScreen is welcome, no application is in progress and
\* the wizard goes on processing events.
C30_RenderPanicRecovers ==
    panicked =>
        /\ running
        /\ state.CurrentScreen = WelcomeScreen
        /\ state.CurrentApp = <<>>

----------------------------------------------------------------------------
(* Properties of the error log.                                            *)

\* The errors among handled that HandleError logs, as it logs them.
Logged == [ i \in 1..Len(SelectSeq(handled, LAMBDA e : e # NilError)) |->
              Structured(SelectSeq(handled, LAMBDA e : e # NilError)[i]) ]

\* C31: the error log is bounded -- after any sequence of HandleError calls
\* it holds at most maxLogSize entries, and they are the most recently
\* handled errors in arrival order (the oldest are dropped first);
\* HandleError(nil) logs nothing and returns no command; ClearErrorLog
\* empties the log.
C31_ErrorLogBounded ==
    LET log == errorRecovery.errorLog
        n   == Len(Logged)
        k   == IF n < errorRecovery.maxLogSize THEN n ELSE errorRecovery.maxLogSize
    IN  /\ Len(log) <= errorRecovery.maxLogSize
        /\ log = SubSeq(Logged, n - k + 1, n)
        /\ HandleError(errorRecovery, NilError) = [ er |-> errorRecovery, cmd |-> <<>> ]
        /\ ClearErrorLog(errorRecovery).errorLog = <<>>

\* More errors were handled than the log holds, a nil among the calls.
C31_Witness ==
    /\ errorRecovery.maxLogSize >= 2
    /\ Len(Logged) > errorRecovery.maxLogSize
    /\ Len(handled) > Len(Logged)
    /\ Len(errorRecovery.errorLog) = errorRecovery.maxLogSize
    /\ errorRecovery.errorLog[1] # errorRecovery.errorLog[2]

----------------------------------------------------------------------------
(* The navigation engine against the controller's back navigation.         *)

\* C32: NavigateBack reports the destination only through the screen it
\* returns -- for every screen it leaves state.CurrentScreen as it was --
\* and it returns a view-model exactly when it un-commits the last
\* application on the add-another screen, the configuration view-model of
\* that application's kind.
C32_NavigateBackReportsByReturnOnly ==
    \A s \in Screens :
        LET r == NavigateBack(s, state)
            n == Len(state.Project.Applications)
        IN  /\ r.state.CurrentScreen = state.CurrentScreen
            /\ r.model # <<>> <=> (s = AddAnotherAppScreen /\ n > 0)
            /\ r.model # <<>> =>
                  /\ r.screen = AppConfigScreen
                  /\ r.model = <<NewAppConfigModel(state.Project.Applications[n].Type)>>

\* The infrastructure screen is active with an application committed: the
\* engine names the dev-tools screen and, asked about the add-another
\* screen, returns a view-model.
C32_Witness ==
    /\ state.CurrentScreen = InfrastructureScreen
    /\ Len(state.Project.Applications) >= 1
    /\ NavigateBack(state.CurrentScreen, state).screen = DevToolsScreen
    /\ NavigateBack(state.CurrentScreen, state).model = <<>>
    /\ NavigateBack(AddAnotherAppScreen, state).model # <<>>

\* C33: the controller's back navigation refines the engine -- for every
\* screen and every state the wizard reaches, handling the back key on that
\* screen leads to the screen NavigateBack returns and leaves Applications
\* and CurrentApp as NavigateBack leaves them; where NavigateBack returns a
\* view-model the controller stores the same one.
C33_ControllerRefinesNavigateBack ==
    \A s \in Screens :
        LET m  == [M EXCEPT !.state.CurrentScreen = s]
            hb == handleBackNavigation(m)
            r  == NavigateBack(s, m.state)
        IN  /\ hb.state.CurrentScreen = r.screen
            /\ hb.state.Project.Applications = r.state.Project.Applications
            /\ hb.state.CurrentApp = r.state.CurrentApp
            /\ hb.state.Project = r.state.Project
            /\ r.model # <<>> => hb.screenModels[r.screen] = r.model
            /\ Update(m, KeyMsg("backspace"), <<>>).model = hb

\* The dev-tools screen is active with an application committed: one back
\* step leads to the add-another screen, a second one un-commits.
C33_Witness ==
    /\ state.CurrentScreen = DevToolsScreen
    /\ Len(state.Project.Applications) >= 1
    /\ handleBackNavigation(M).state.CurrentScreen = AddAnotherAppScreen
    /\ handleBackNavigation(handleBackNavigation(M)).state.CurrentScreen = AppConfigScreen
    /\ handleBackNavigation(handleBackNavigation(M)).state.CurrentApp # <<>>

----------------------------------------------------------------------------
(* What the controller keeps true of its state on every screen.            *)

\* C34: in every state the controller reaches, an application is in progress
\* exactly when the configuration screen is active; so a configuration-
\* complete event delivered on that screen is never dropped: it commits the
\* application in progress and leads to the add-another screen.
C34_CurrentAppExactlyOnAppConfig ==
    /\ state.CurrentApp # <<>> <=> state.CurrentScreen = AppConfigScreen
    /\ state.CurrentScreen = AppConfigScreen =>
          \A msg \in AppConfigCompleteMsgs :
              LET r == Update(M, msg, <<>>).model
              IN  /\ r # M
                  /\ Len(Apps(r)) = Len(Apps(M)) + 1
                  /\ Apps(r)[Len(Apps(r))].Type = state.CurrentApp[1].Type
                  /\ r.state.CurrentScreen = AddAnotherAppScreen

\* The configuration screen reached by going back from the add-another
\* screen: the un-committed application is in progress again.
C34_Witness ==
    /\ state.CurrentScreen = AppConfigScreen
    /\ state.CurrentApp # <<>>
    /\ state.CurrentApp[1].Name \in AppNames
    /\ screenModels[AddAnotherAppScreen] # <<>>

\* The screens that come after an application was committed.
ScreensAfterCommit ==
    { AddAnotherAppScreen, DevToolsScreen, InfrastructureScreen, CIPipelineScreen,
      AIToolsScreen, GeneratingScreen, CompleteScreen }

\* C35: in every state the controller reaches with the add-another, the
\* dev-tools, the infrastructure, the CI, the AI-tools, the generating or the
\* complete screen active, at least one application is committed; so going
\* back from the add-another screen always un-commits, and the generating
\* screen is entered with a non-empty application list.
C35_AppsCommittedAfterAddAnother ==
    /\ state.CurrentScreen \in ScreensAfterCommit => Len(Apps(M)) >= 1
    /\ state.CurrentScreen = AddAnotherAppScreen =>
          /\ handleBackNavigation(M) = UncommitLastApp(M)
          /\ handleBackNavigation(M).state.CurrentScreen = AppConfigScreen
    /\ \A msg \in Events :
          Update(M, msg, <<>>).model.state.CurrentScreen = GeneratingScreen =>
              Len(Apps(Update(M, msg, <<>>).model)) >= 1

\* The add-another screen reached by going back from the dev-tools screen,
\* with one application committed.
C35_Witness ==
    /\ state.CurrentScreen = AddAnotherAppScreen
    /\ Len(Apps(M)) = 1
    /\ screenModels[DevToolsScreen] # <<>>
    /\ handleBackNavigation(M).state.Project.Applications = <<>>

\* C36: in every state the controller reaches, after any mix of forward
\* transitions and back navigations, the view-model map holds a view-model
\* for CurrentScreen, so the left panel shows the active screen; and every
\* event leads to such a state again.
C36_ActiveScreenHasViewModel ==
    /\ screenModels[state.CurrentScreen] # <<>>
    /\ screenModels[state.CurrentScreen][1].screen = state.CurrentScreen
    /\ renderLeftPanel(M)
    /\ \A msg \in Events : renderLeftPanel(Update(M, msg, <<>>).model)

\* The kind-selection screen reached by going back from the configuration
\* an un-commit had reopened: forward and back steps were mixed.
C36_Witness ==
    /\ state.CurrentScreen = AddAppsScreen
    /\ screenModels[DevToolsScreen] # <<>>
    /\ state.Project.Applications = <<>>
    /\ renderLeftPanel(M)

----------------------------------------------------------------------------
(* Overwriting, rendering through the cache, and reads that overlap a write. *)

\* C37: a SetStructure for a key that is already stored only replaces that
\* key's entry -- the new content, the time of the call, zero hits: the keys
\* stored stay the same and every other entry stays as it was, also when the
\* cache holds maxSize entries.
C37_SetOfStoredKeyOnlyReplaces ==
    \A project \in CacheProjects : \A sz \in CacheSizes : \A content \in Contents :
        LET key == generateKey(project, sz[1], sz[2])
            c   == structureCache.cache
        IN  key \in DOMAIN c =>
                \A oldestKey \in LeastUsed(c) :
                    LET d == SetStructure(structureCache, project, sz[1], sz[2],
                                          content, clock, oldestKey).cache
                    IN  /\ DOMAIN d = DOMAIN c
                        /\ \A j \in DOMAIN c \ {key} : d[j] = c[j]
                        /\ d[key] = [ content |-> content, timestamp |-> clock,
                                      hits |-> 0 ]

\* C38: the cached panel is the panel a fresh rendering gives -- two inputs
\* (configuration, width, height) with the same cache key render to the same
\* text, every entry holds the text of every input with its key, and
\* RenderProjectStructure returns the rendering of its arguments whether it
\* found an entry or not.
C38_CachedRenderingIsFresh ==
    /\ \A k \in DOMAIN structureCache.cache :
          \A project \in RenderProjects : \A sz \in KeySizes :
              generateKey(project, sz[1], sz[2]) = k =>
                  structureCache.cache[k].content =
                      renderStructure(project, sz[1], sz[2])
    /\ lastCall.op = "RenderSecond" =>
          LET a == lastCall.first
              b == lastCall.second
          IN  /\ lastCall.content = renderStructure(b[1], b[2][1], b[2][2])
              /\ generateKey(a[1], a[2][1], a[2][2]) = generateKey(b[1], b[2][1], b[2][2])
                    => renderStructure(a[1], a[2][1], a[2][2])
                         = renderStructure(b[1], b[2][1], b[2][2])

\* The second call was answered from the entry the first call stored for a
\* configuration with another description.
C38_Witness ==
    /\ lastCall.op = "RenderSecond"
    /\ lastCall.found
    /\ lastCall.first[1].Description # lastCall.second[1].Description
    /\ lastCall.first[1].Name # ""
    /\ lastCall.content = renderStructure(lastCall.second[1], lastCall.second[2][1],
                                          lastCall.second[2][2])

\* C39: no stale content survives a SetStructure under concurrency -- once
\* SetStructure(k, c) has returned and no later SetStructure or Clear has,
\* then, as long as k is stored, the entry of k holds c and a GetStructure
\* that starts now and finds k returns c; also when the SetStructure ran
\* between the read and the write-back of a concurrent GetStructure of k.
C39_NoStaleContentAfterSet ==
    (lastCall.op = "Set" /\ lastCall.key \in DOMAIN structureCache.cache) =>
        /\ structureCache.cache[lastCall.key].content = lastCall.content
        /\ \A project \in ConcProjects :
              LET r == GetStructure(structureCache, project, ConcSize[1], ConcSize[2],
                                    clock)
              IN  (generateKey(project, ConcSize[1], ConcSize[2]) = lastCall.key
                      /\ r.found) => r.content = lastCall.content

----------------------------------------------------------------------------
(* The generating view-model.                                              *)

\* C40: from a new generating view-model every tick raises the progress by
\* 2 and the progress stays within 0..100; the tick that brings it to 100,
\* and no other, sets done, leaves every step marked completed and emits
\* the generation-complete event; a tick after that changes nothing, emits
\* nothing and schedules no tick.
C40_GeneratingTicksToCompletion ==
    LET r == GeneratingUpdate(generating, ProgressMsg)
        allCompleted(m) == \A i \in 1..Len(m.completed) : m.completed[i]
    IN  /\ generating.progress \in 0..100
        /\ generating.done <=> generating.progress = 100
        /\ allCompleted(generating) <=> generating.done
        /\ ~generating.done =>
              /\ r.model.progress = generating.progress + 2
              /\ r.model.done <=> r.model.progress = 100
              /\ r.model.done => allCompleted(r.model)
              /\ r.cmd = IF r.model.done THEN <<GenerationCompleteMsg>>
                                         ELSE <<ProgressMsg>>
        /\ generating.done => r = Result(generating, <<>>)

\* The tick after the one that completed the generation: the view-model is
\* done with every step completed, and no command was returned.
C40_Witness ==
    /\ generating.done
    /\ generating.progress = 100
    /\ \A i \in 1..Len(generating.completed) : generating.completed[i]
    /\ generating.currentStep = "Project generation complete!"
    /\ generatingCmd = <<>>

====
